---- MODULE Spec2Model ----
(***************************************************************************)
(* Byte sources of the JSON codec (src/src/read.rs, src/src/iter.rs):      *)
(* SliceRead, StrRead and IoRead, their cursor operations and the string   *)
(* body parser with its escape decoder; the serializer and its formatters  *)
(* (src/src/ser.rs), the sorted Map (src/src/map.rs), JSON Pointer on      *)
(* Value (src/src/value/mod.rs) and Error (src/src/error.rs).              *)
(*                                                                         *)
(* A byte is an integer in 0..255.  An Option<u8> is a byte or None.  The  *)
(* reader behind IoRead is the sequence of items its io::Bytes iterator    *)
(* yields: Ok(byte) is the byte, Err(e) is the item IoErr.  Rust indexes   *)
(* slices from 0 and TLA+ sequences from 1: slice[i] is slice[i + 1] here. *)
(***************************************************************************)
EXTENDS Integers, Sequences, FiniteSets, TLC

VARIABLES
    input,      \* the items handed to the source at construction
    rd,         \* the source: a SliceRead, a StrRead or an IoRead
    failed,     \* the caller's failure flag (the `failed` of set_failed)
    last,       \* the last operation called on rd and what it returned
    consumed,   \* history: the bytes consumed by next() and discard(), in order
    latched,    \* history: set_failed has been called
    gen,        \* history: the parameters Init built the input from
    writer,     \* the bytes written to the serializer's writer
    formatter,  \* the serializer's formatter
    calls,      \* history: the formatter methods called, in order
    ser,        \* the serializer's caller: the containers open and the last result
    obj,        \* a Map, a Value or an Error under test
    ret         \* the last operation called on obj and what it returned

read_vars == <<input, rd, failed, last, consumed, latched, gen>>

ser_vars == <<writer, formatter, calls, ser>>

val_vars == <<obj, ret>>

vars == <<input, rd, failed, last, consumed, latched, gen, writer, formatter, calls, ser,
          obj, ret>>

----------------------------------------------------------------------------
(* Values *)

None == -1
IoErr == 256
ErrVal == -2

Byte == 0 .. 255

RECURSIVE OkBytes(_)
OkBytes(s) ==
    IF s = <<>> THEN <<>>
    ELSE IF Head(s) = IoErr THEN OkBytes(Tail(s))
    ELSE <<Head(s)>> \o OkBytes(Tail(s))

NoError == [code |-> "", line |-> 0, column |-> 0]

Error_syntax(code, line, column) == [code |-> code, line |-> line, column |-> column]

Error_io == [code |-> "Io", line |-> 0, column |-> 0]

----------------------------------------------------------------------------
(* iter.rs: LineColIterator over the reader's io::Bytes.  An operator      *)
(* named X_on is the part of X that works on a value X has just computed.  *)

Bytes_new(data) == [data |-> data, pos |-> 0]

Bytes_next(b) ==
    IF b.pos < Len(b.data)
    THEN [it |-> [b EXCEPT !.pos = @ + 1], v |-> b.data[b.pos + 1]]
    ELSE [it |-> b, v |-> None]

LineColIterator_new(iter) ==
    [iter |-> iter, line |-> 1, col |-> 0, start_of_line |-> 0]

LineColIterator_line(it) == it.line

LineColIterator_col(it) == it.col

LineColIterator_byte_offset(it) == it.start_of_line + it.col

\* a variant that keeps counting columns across a newline
LineColIterator_next_on_keepcol(it, n) ==
    IF n.v = None THEN [it |-> [it EXCEPT !.iter = n.it], v |-> None]
    ELSE IF n.v = 10 THEN
        [it |-> [it EXCEPT !.iter = n.it,
                           !.start_of_line = @ + it.col + 1,
                           !.line = @ + 1,
                           !.col = @ + 1],
         v |-> 10]
    ELSE IF n.v = IoErr THEN [it |-> [it EXCEPT !.iter = n.it], v |-> IoErr]
    ELSE [it |-> [it EXCEPT !.iter = n.it, !.col = @ + 1], v |-> n.v]

\* match self.iter.next() { .. }
LineColIterator_next_on(it, n) ==
    IF n.v = None THEN [it |-> [it EXCEPT !.iter = n.it], v |-> None]
    ELSE IF n.v = 10 THEN
        [it |-> [it EXCEPT !.iter = n.it,
                           !.start_of_line = @ + it.col + 1,
                           !.line = @ + 1,
                           !.col = 0],
         v |-> 10]
    ELSE IF n.v = IoErr THEN [it |-> [it EXCEPT !.iter = n.it], v |-> IoErr]
    ELSE [it |-> [it EXCEPT !.iter = n.it, !.col = @ + 1], v |-> n.v]

LineColIterator_next(it) == LineColIterator_next_on(it, Bytes_next(it.iter))

----------------------------------------------------------------------------
(* read.rs: IoRead *)

IoRead_new(reader) ==
    [kind |-> "io", iter |-> LineColIterator_new(Bytes_new(reader)), ch |-> None]

\* The result of next() and peek(): the source afterwards and Ok(Some(b)) as
\* b, Ok(None) as None, Err(Error::io(e)) as ErrVal.
IoRead_next_on(r, n) ==
    IF n.v = IoErr THEN [r |-> [r EXCEPT !.iter = n.it], v |-> ErrVal]
    ELSE [r |-> [r EXCEPT !.iter = n.it], v |-> n.v]

IoRead_next(r) ==
    IF r.ch # None THEN [r |-> [r EXCEPT !.ch = None], v |-> r.ch]
    ELSE IoRead_next_on(r, LineColIterator_next(r.iter))

\* a variant that does not keep the byte it pulled
IoRead_peek_on_forget(r, n) ==
    IF n.v = IoErr THEN [r |-> [r EXCEPT !.iter = n.it], v |-> ErrVal]
    ELSE [r |-> [r EXCEPT !.iter = n.it], v |-> n.v]

IoRead_peek_on(r, n) ==
    IF n.v = IoErr THEN [r |-> [r EXCEPT !.iter = n.it], v |-> ErrVal]
    ELSE IF n.v = None THEN [r |-> [r EXCEPT !.iter = n.it], v |-> None]
    ELSE [r |-> [r EXCEPT !.iter = n.it, !.ch = n.v], v |-> n.v]

IoRead_peek(r) ==
    IF r.ch # None THEN [r |-> r, v |-> r.ch]
    ELSE IoRead_peek_on(r, LineColIterator_next(r.iter))

IoRead_discard(r) == [r EXCEPT !.ch = None]

IoRead_position(r) ==
    [line |-> LineColIterator_line(r.iter), column |-> LineColIterator_col(r.iter)]

IoRead_peek_position(r) == IoRead_position(r)

\* a variant that takes no account of the byte held by a peek
IoRead_byte_offset_held(r) == LineColIterator_byte_offset(r.iter)

IoRead_byte_offset(r) ==
    IF r.ch # None THEN LineColIterator_byte_offset(r.iter) - 1
    ELSE LineColIterator_byte_offset(r.iter)

IoRead_should_early_return_if_failed == TRUE

IoRead_set_failed(r, f) == [r |-> r, failed |-> TRUE]

----------------------------------------------------------------------------
(* read.rs: SliceRead *)

SliceRead_new(slice) == [kind |-> "slice", slice |-> slice, index |-> 0]

\* one turn of the loop of position_of_index
PositionStep(position, ch) ==
    IF ch = 10 THEN [line |-> position.line + 1, column |-> 0]
    ELSE [line |-> position.line, column |-> position.column + 1]

RECURSIVE PositionFold(_, _)
PositionFold(slice, i) ==
    IF i = 0 THEN [line |-> 1, column |-> 0]
    ELSE PositionStep(PositionFold(slice, i - 1), slice[i])

SliceRead_position_of_index(s, i) == PositionFold(s.slice, i)

SliceRead_next(s) ==
    IF s.index < Len(s.slice)
    THEN [r |-> [s EXCEPT !.index = @ + 1], v |-> s.slice[s.index + 1]]
    ELSE [r |-> s, v |-> None]

SliceRead_peek(s) ==
    IF s.index < Len(s.slice)
    THEN [r |-> s, v |-> s.slice[s.index + 1]]
    ELSE [r |-> s, v |-> None]

SliceRead_discard(s) == [s EXCEPT !.index = @ + 1]

SliceRead_position(s) == SliceRead_position_of_index(s, s.index)

Min(a, b) == IF a < b THEN a ELSE b

SliceRead_peek_position(s) ==
    SliceRead_position_of_index(s, Min(Len(s.slice), s.index + 1))

SliceRead_byte_offset(s) == s.index

SliceRead_should_early_return_if_failed == FALSE

\* a variant that leaves the slice as it is
SliceRead_set_failed_keep(s, f) == [r |-> s, failed |-> f]

\* a variant that cuts the slice one byte before the cursor
SliceRead_set_failed_short(s, f) ==
    [r |-> [s EXCEPT !.slice = SubSeq(s.slice, 1, s.index - 1)], failed |-> f]

SliceRead_set_failed(s, f) ==
    [r |-> [s EXCEPT !.slice = SubSeq(s.slice, 1, s.index)], failed |-> f]

----------------------------------------------------------------------------
(* read.rs: StrRead, a SliceRead over text *)

StrRead_new(s) == [kind |-> "str", delegate |-> SliceRead_new(s)]

\* what the delegate returned, with the delegate put back into the StrRead
Delegated(r, d) == [d EXCEPT !.r = [r EXCEPT !.delegate = d.r]]

StrRead_next(r) == Delegated(r, SliceRead_next(r.delegate))

StrRead_peek(r) == Delegated(r, SliceRead_peek(r.delegate))

StrRead_discard(r) == [r EXCEPT !.delegate = SliceRead_discard(r.delegate)]

StrRead_position(r) == SliceRead_position(r.delegate)

StrRead_peek_position(r) == SliceRead_peek_position(r.delegate)

StrRead_byte_offset(r) == SliceRead_byte_offset(r.delegate)

StrRead_should_early_return_if_failed == FALSE

StrRead_set_failed(r, f) == Delegated(r, SliceRead_set_failed(r.delegate, f))

----------------------------------------------------------------------------
(* read.rs: the Read trait, dispatched on the implementation *)

Read_next(r) ==
    CASE r.kind = "io" -> IoRead_next(r)
      [] r.kind = "slice" -> SliceRead_next(r)
      [] r.kind = "str" -> StrRead_next(r)

Read_peek(r) ==
    CASE r.kind = "io" -> IoRead_peek(r)
      [] r.kind = "slice" -> SliceRead_peek(r)
      [] r.kind = "str" -> StrRead_peek(r)

Read_discard(r) ==
    CASE r.kind = "io" -> IoRead_discard(r)
      [] r.kind = "slice" -> SliceRead_discard(r)
      [] r.kind = "str" -> StrRead_discard(r)

Read_position(r) ==
    CASE r.kind = "io" -> IoRead_position(r)
      [] r.kind = "slice" -> SliceRead_position(r)
      [] r.kind = "str" -> StrRead_position(r)

Read_peek_position(r) ==
    CASE r.kind = "io" -> IoRead_peek_position(r)
      [] r.kind = "slice" -> SliceRead_peek_position(r)
      [] r.kind = "str" -> StrRead_peek_position(r)

Read_byte_offset(r) ==
    CASE r.kind = "io" -> IoRead_byte_offset(r)
      [] r.kind = "slice" -> SliceRead_byte_offset(r)
      [] r.kind = "str" -> StrRead_byte_offset(r)

Read_should_early_return_if_failed(r) ==
    CASE r.kind = "io" -> IoRead_should_early_return_if_failed
      [] r.kind = "slice" -> SliceRead_should_early_return_if_failed
      [] r.kind = "str" -> StrRead_should_early_return_if_failed

Read_set_failed(r, f) ==
    CASE r.kind = "io" -> IoRead_set_failed(r, f)
      [] r.kind = "slice" -> SliceRead_set_failed(r, f)
      [] r.kind = "str" -> StrRead_set_failed(r, f)

----------------------------------------------------------------------------
(* Bit arithmetic on naturals, as the code's shifts, masks and ors *)

RECURSIVE BitAnd(_, _)
BitAnd(a, b) ==
    IF a = 0 \/ b = 0 THEN 0
    ELSE 2 * BitAnd(a \div 2, b \div 2) + (IF a % 2 = 1 /\ b % 2 = 1 THEN 1 ELSE 0)

RECURSIVE BitOr(_, _)
BitOr(a, b) ==
    IF a = 0 THEN b
    ELSE IF b = 0 THEN a
    ELSE 2 * BitOr(a \div 2, b \div 2) + (IF a % 2 = 1 \/ b % 2 = 1 THEN 1 ELSE 0)

RECURSIVE Pow2(_)
Pow2(k) == IF k = 0 THEN 1 ELSE 2 * Pow2(k - 1)

Shr(n, k) == n \div Pow2(k)

\* << on an unsigned integer of w bits: the top k bits are shifted out
Shl(n, k, w) == (n % Pow2(w - k)) * Pow2(k)

----------------------------------------------------------------------------
(* read.rs: the tables and the helpers shared by the sources *)

\* a table whose entry for 0x1F is not set
ESCAPE_short(b) == b < 31 \/ b = 34 \/ b = 92

ESCAPE(b) == b < 32 \/ b = 34 \/ b = 92

HEX(b) ==
    IF b >= 48 /\ b <= 57 THEN b - 48
    ELSE IF b >= 65 /\ b <= 70 THEN b - 55
    ELSE IF b >= 97 /\ b <= 102 THEN b - 87
    ELSE 255

decode_hex_val(val) == IF HEX(val) = 255 THEN None ELSE HEX(val)

Error_at(reason, position) == Error_syntax(reason, position.line, position.column)

error(read, reason) == Error_at(reason, Read_position(read))

\* Result<u8>: ok and the byte, or the error
OrEof(n) ==
    IF n.v = ErrVal THEN [r |-> n.r, ok |-> FALSE, v |-> 0, err |-> Error_io]
    ELSE IF n.v = None
    THEN [r |-> n.r, ok |-> FALSE, v |-> 0, err |-> error(n.r, "EofWhileParsingString")]
    ELSE [r |-> n.r, ok |-> TRUE, v |-> n.v, err |-> NoError]

next_or_eof(read) == OrEof(Read_next(read))

peek_or_eof(read) == OrEof(Read_peek(read))

\* core::str::from_utf8(slice).is_ok()
RECURSIVE Utf8Valid(_)
Utf8Valid(s) ==
    LET n == Len(s)
        Cont(i) == i <= n /\ s[i] >= 128 /\ s[i] <= 191
        Rest(k) == Utf8Valid(SubSeq(s, k + 1, n))
    IN
    IF n = 0 THEN TRUE
    ELSE LET b == s[1] IN
         IF b < 128 THEN Rest(1)
         ELSE IF b >= 194 /\ b <= 223 THEN Cont(2) /\ Rest(2)
         ELSE IF b = 224 THEN n >= 2 /\ s[2] >= 160 /\ s[2] <= 191 /\ Cont(3) /\ Rest(3)
         ELSE IF (b >= 225 /\ b <= 236) \/ b = 238 \/ b = 239
              THEN Cont(2) /\ Cont(3) /\ Rest(3)
         ELSE IF b = 237 THEN n >= 2 /\ s[2] >= 128 /\ s[2] <= 159 /\ Cont(3) /\ Rest(3)
         ELSE IF b = 240
              THEN n >= 2 /\ s[2] >= 144 /\ s[2] <= 191 /\ Cont(3) /\ Cont(4) /\ Rest(4)
         ELSE IF b >= 241 /\ b <= 243 THEN Cont(2) /\ Cont(3) /\ Cont(4) /\ Rest(4)
         ELSE IF b = 244
              THEN n >= 2 /\ s[2] >= 128 /\ s[2] <= 143 /\ Cont(3) /\ Cont(4) /\ Rest(4)
         ELSE FALSE

\* as_str: Ok(the bytes as a str) or InvalidUnicodeCodePoint at the source's position
as_str(read, slice) ==
    IF Utf8Valid(slice) THEN [ok |-> TRUE, err |-> NoError]
    ELSE [ok |-> FALSE, err |-> error(read, "InvalidUnicodeCodePoint")]

\* char::from_u32(n).is_some()
char_from_u32(n) == n <= 1114111 /\ ~(n >= 55296 /\ n <= 57343)

\* c.encode_utf8(..).as_bytes()
encode_utf8(c) ==
    IF c < 128 THEN <<c>>
    ELSE IF c < 2048 THEN <<BitOr(Shr(c, 6), 192), BitOr(BitAnd(c, 63), 128)>>
    ELSE IF c < 65536
    THEN <<BitOr(Shr(c, 12), 224), BitOr(BitAnd(Shr(c, 6), 63), 128),
           BitOr(BitAnd(c, 63), 128)>>
    ELSE <<BitOr(Shr(c, 18), 240), BitOr(BitAnd(Shr(c, 12), 63), 128),
           BitOr(BitAnd(Shr(c, 6), 63), 128), BitOr(BitAnd(c, 63), 128)>>

encode_surrogate(scratch, n) ==
    scratch \o <<BitOr(BitAnd(Shr(n, 12), 15), 224),
                 BitOr(BitAnd(Shr(n, 6), 63), 128),
                 BitOr(BitAnd(n, 63), 128)>>

----------------------------------------------------------------------------
(* read.rs: decode_hex_escape.  Result<u16>: ok and the value, or the error *)

HexOk(r, n) == [r |-> r, ok |-> TRUE, v |-> n, err |-> NoError]

HexErr(r, err) == [r |-> r, ok |-> FALSE, v |-> 0, err |-> err]

\* a variant that shifts by a byte
HexPush_byte(n, val) == Shl(n, 8, 16) + val

\* n = (n << 4) + val, in a u16
HexPush(n, val) == Shl(n, 4, 16) + val

RECURSIVE IoRead_decode_hex_loop(_, _, _)
IoRead_decode_hex_on(c, n, k) ==
    IF ~c.ok THEN HexErr(c.r, c.err)
    ELSE IF decode_hex_val(c.v) = None THEN HexErr(c.r, error(c.r, "InvalidEscape"))
    ELSE IoRead_decode_hex_loop(c.r, HexPush(n, decode_hex_val(c.v)), k - 1)

IoRead_decode_hex_loop(r, n, k) ==
    IF k = 0 THEN HexOk(r, n) ELSE IoRead_decode_hex_on(next_or_eof(r), n, k)

IoRead_decode_hex_escape(r) == IoRead_decode_hex_loop(r, 0, 4)

RECURSIVE SliceRead_decode_hex_loop(_, _, _)
SliceRead_decode_hex_on(s, ch, n, k) ==
    IF ch = None THEN HexErr(s, error(s, "InvalidEscape"))
    ELSE SliceRead_decode_hex_loop(s, HexPush(n, ch), k - 1)

SliceRead_decode_hex_loop(s, n, k) ==
    IF k = 0 THEN HexOk(s, n)
    ELSE SliceRead_decode_hex_on(SliceRead_discard(s),
                                 decode_hex_val(s.slice[s.index + 1]), n, k)

SliceRead_decode_hex_eof(s) == HexErr(s, error(s, "EofWhileParsingString"))

SliceRead_decode_hex_escape(s) ==
    IF s.index + 4 > Len(s.slice)
    THEN SliceRead_decode_hex_eof([s EXCEPT !.index = Len(s.slice)])
    ELSE SliceRead_decode_hex_loop(s, 0, 4)

StrRead_decode_hex_escape(r) == Delegated(r, SliceRead_decode_hex_escape(r.delegate))

Read_decode_hex_escape(r) ==
    CASE r.kind = "io" -> IoRead_decode_hex_escape(r)
      [] r.kind = "slice" -> SliceRead_decode_hex_escape(r)
      [] r.kind = "str" -> StrRead_decode_hex_escape(r)

----------------------------------------------------------------------------
(* read.rs: parse_escape and ignore_escape.  The byte before the cursor is *)
(* a backslash.  Result<()>: the source and the scratch buffer afterwards. *)

EscOk(r, scratch) == [r |-> r, ok |-> TRUE, scratch |-> scratch, err |-> NoError]

EscErr(r, scratch, err) == [r |-> r, ok |-> FALSE, scratch |-> scratch, err |-> err]

\* a variant whose \b stays the letter b
SimpleEscape_b(ch) ==
    CASE ch = 34 -> 34
      [] ch = 92 -> 92
      [] ch = 47 -> 47
      [] ch = 98 -> 98
      [] ch = 102 -> 12
      [] ch = 110 -> 10
      [] ch = 114 -> 13
      [] ch = 116 -> 9
      [] OTHER -> None

\* the byte a single-byte escape stands for
SimpleEscape(ch) ==
    CASE ch = 34 -> 34
      [] ch = 92 -> 92
      [] ch = 47 -> 47
      [] ch = 98 -> 8
      [] ch = 102 -> 12
      [] ch = 110 -> 10
      [] ch = 114 -> 13
      [] ch = 116 -> 9
      [] OTHER -> None

\* a variant that leaves out the offset of the supplementary planes
CombineSurrogates_no_offset(n1, n2) ==
    BitOr(Shl(n1 - 55296, 10, 32), n2 - 56320)

\* the surrogate pair: (((n1 - 0xD800) as u32) << 10 | (n2 - 0xDC00) as u32) + 0x1_0000
CombineSurrogates(n1, n2) ==
    BitOr(Shl(n1 - 55296, 10, 32), n2 - 56320) + 65536

\* a variant that encodes the surrogate whatever `validate` is
LoneTrailingSurrogate_encode(r, validate, scratch, n) ==
    EscOk(r, encode_surrogate(scratch, n))

\* n @ 0xDC00..=0xDFFF
LoneTrailingSurrogate(r, validate, scratch, n) ==
    IF validate
    THEN EscErr(r, scratch, error(r, "LoneLeadingSurrogateInHexEscape"))
    ELSE EscOk(r, encode_surrogate(scratch, n))

\* read.discard(); error(read, ErrorCode::UnexpectedEndOfHexEscape)
UnexpectedEnd(r, scratch) == EscErr(r, scratch, error(r, "UnexpectedEndOfHexEscape"))

\* match char::from_u32(n) { .. }, then the extend_from_slice
parse_escape_pair(r, n, scratch) ==
    IF char_from_u32(n) THEN EscOk(r, scratch \o encode_utf8(n))
    ELSE EscErr(r, scratch, error(r, "InvalidUnicodeCodePoint"))

\* let n2 = tri!(read.decode_hex_escape()); ..
parse_escape_trail(l, n1, scratch) ==
    IF ~l.ok THEN EscErr(l.r, scratch, l.err)
    ELSE IF l.v < 56320 \/ l.v > 57343
    THEN EscErr(l.r, scratch, error(l.r, "LoneLeadingSurrogateInHexEscape"))
    ELSE parse_escape_pair(l.r, CombineSurrogates(n1, l.v), scratch)

RECURSIVE parse_escape(_, _, _)

\* if tri!(peek_or_eof(read)) == b'u' { .. } else { .. }
parse_escape_lead_u(p2, n1, validate, scratch) ==
    IF ~p2.ok THEN EscErr(p2.r, scratch, p2.err)
    ELSE IF p2.v = 117
    THEN parse_escape_trail(Read_decode_hex_escape(Read_discard(p2.r)), n1, scratch)
    ELSE IF validate THEN UnexpectedEnd(Read_discard(p2.r), scratch)
    ELSE parse_escape(p2.r, validate, encode_surrogate(scratch, n1))

\* if tri!(peek_or_eof(read)) == b'\\' { .. } else { .. }
parse_escape_lead(p1, n1, validate, scratch) ==
    IF ~p1.ok THEN EscErr(p1.r, scratch, p1.err)
    ELSE IF p1.v = 92
    THEN parse_escape_lead_u(peek_or_eof(Read_discard(p1.r)), n1, validate, scratch)
    ELSE IF validate THEN UnexpectedEnd(Read_discard(p1.r), scratch)
    ELSE EscOk(p1.r, encode_surrogate(scratch, n1))

\* the thread has panicked: no Result is returned
Panicked == [code |-> "panicked", line |-> 0, column |-> 0]

\* n => char::from_u32(n as u32).unwrap(), then the extend_from_slice
parse_escape_char(r, n, scratch) ==
    IF char_from_u32(n) THEN EscOk(r, scratch \o encode_utf8(n))
    ELSE EscErr(r, scratch, Panicked)

\* match tri!(read.decode_hex_escape()) { .. }
parse_escape_u(h, validate, scratch) ==
    IF ~h.ok THEN EscErr(h.r, scratch, h.err)
    ELSE IF h.v >= 56320 /\ h.v <= 57343
    THEN LoneTrailingSurrogate(h.r, validate, scratch, h.v)
    ELSE IF h.v >= 55296 /\ h.v <= 56319
    THEN parse_escape_lead(peek_or_eof(h.r), h.v, validate, scratch)
    ELSE parse_escape_char(h.r, h.v, scratch)

\* match ch { .. }
parse_escape_on(c, validate, scratch) ==
    IF ~c.ok THEN EscErr(c.r, scratch, c.err)
    ELSE IF SimpleEscape(c.v) # None THEN EscOk(c.r, Append(scratch, SimpleEscape(c.v)))
    ELSE IF c.v = 117 THEN parse_escape_u(Read_decode_hex_escape(c.r), validate, scratch)
    ELSE EscErr(c.r, scratch, error(c.r, "InvalidEscape"))

parse_escape(read, validate, scratch) ==
    parse_escape_on(next_or_eof(read), validate, scratch)

ignore_escape_u(h) == IF ~h.ok THEN EscErr(h.r, <<>>, h.err) ELSE EscOk(h.r, <<>>)

ignore_escape_on(c) ==
    IF ~c.ok THEN EscErr(c.r, <<>>, c.err)
    ELSE IF c.v \in {34, 92, 47, 98, 102, 110, 114, 116} THEN EscOk(c.r, <<>>)
    ELSE IF c.v = 117 THEN ignore_escape_u(Read_decode_hex_escape(c.r))
    ELSE EscErr(c.r, <<>>, error(c.r, "InvalidEscape"))

ignore_escape(read) == ignore_escape_on(next_or_eof(read))

----------------------------------------------------------------------------
(* read.rs: parse_str_bytes, parse_str, parse_str_raw, ignore_str.         *)
(* Result<Reference>: tag is Borrowed, Copied or Err; bytes is what the    *)
(* reference points at; scratch is the caller's buffer afterwards.  The    *)
(* closure `result` is as_str ("as_str"), the identity on bytes ("bytes")  *)
(* or str::from_utf8_unchecked ("unchecked").                              *)

StrErr(r, scratch, err) ==
    [r |-> r, tag |-> "Err", bytes |-> <<>>, scratch |-> scratch, err |-> err]

StrOk(r, tag, bytes, scratch) ==
    [r |-> r, tag |-> tag, bytes |-> bytes, scratch |-> scratch, err |-> NoError]

ResultOn(v, read, tag, bytes, scratch) ==
    IF v.ok THEN StrOk(read, tag, bytes, scratch) ELSE StrErr(read, scratch, v.err)

\* result(self, bytes).map(Reference::..)
Result(read, result, tag, bytes, scratch) ==
    IF result = "as_str" THEN ResultOn(as_str(read, bytes), read, tag, bytes, scratch)
    ELSE StrOk(read, tag, bytes, scratch)

RECURSIVE IoRead_parse_str_bytes(_, _, _, _)

IoRead_parse_str_esc(e, validate, result) ==
    IF ~e.ok THEN StrErr(e.r, e.scratch, e.err)
    ELSE IoRead_parse_str_bytes(e.r, e.scratch, validate, result)

IoRead_parse_str_on(c, scratch, validate, result) ==
    IF ~c.ok THEN StrErr(c.r, scratch, c.err)
    ELSE IF ~ESCAPE(c.v)
    THEN IoRead_parse_str_bytes(c.r, Append(scratch, c.v), validate, result)
    ELSE IF c.v = 34 THEN Result(c.r, result, "Copied", scratch, scratch)
    ELSE IF c.v = 92
    THEN IoRead_parse_str_esc(parse_escape(c.r, validate, scratch), validate, result)
    ELSE IF validate
    THEN StrErr(c.r, scratch, error(c.r, "ControlCharacterWhileParsingString"))
    ELSE IoRead_parse_str_bytes(c.r, Append(scratch, c.v), validate, result)

IoRead_parse_str_bytes(self, scratch, validate, result) ==
    IoRead_parse_str_on(next_or_eof(self), scratch, validate, result)

IoRead_parse_str(self, scratch) == IoRead_parse_str_bytes(self, scratch, TRUE, "as_str")

IoRead_parse_str_raw(self, scratch) == IoRead_parse_str_bytes(self, scratch, FALSE, "bytes")

RECURSIVE IoRead_ignore_str(_)

IoRead_ignore_str_esc(e) ==
    IF ~e.ok THEN StrErr(e.r, <<>>, e.err) ELSE IoRead_ignore_str(e.r)

IoRead_ignore_str_on(c) ==
    IF ~c.ok THEN StrErr(c.r, <<>>, c.err)
    ELSE IF ~ESCAPE(c.v) THEN IoRead_ignore_str(c.r)
    ELSE IF c.v = 34 THEN StrOk(c.r, "Unit", <<>>, <<>>)
    ELSE IF c.v = 92 THEN IoRead_ignore_str_esc(ignore_escape(c.r))
    ELSE StrErr(c.r, <<>>, error(c.r, "ControlCharacterWhileParsingString"))

IoRead_ignore_str(self) == IoRead_ignore_str_on(next_or_eof(self))

\* while self.index < self.slice.len() && !ESCAPE[self.slice[self.index]] { self.index += 1 }
RECURSIVE SliceRead_skip(_)
SliceRead_skip(s) ==
    IF s.index < Len(s.slice) /\ ~ESCAPE(s.slice[s.index + 1])
    THEN SliceRead_skip([s EXCEPT !.index = @ + 1])
    ELSE s

\* &self.slice[start..self.index]
Slice(s, start) == SubSeq(s.slice, start + 1, s.index)

\* self.index += 1
Advance(s) == [s EXCEPT !.index = @ + 1]

RECURSIVE SliceRead_parse_str_loop(_, _, _, _, _)

SliceRead_parse_str_esc(e, validate, result) ==
    IF ~e.ok THEN StrErr(e.r, e.scratch, e.err)
    ELSE SliceRead_parse_str_loop(e.r, e.scratch, e.r.index, validate, result)

\* the loop body once the scan has stopped at s.index
SliceRead_parse_str_on(s, scratch, start, validate, result) ==
    IF s.index = Len(s.slice)
    THEN StrErr(s, scratch, error(s, "EofWhileParsingString"))
    ELSE IF s.slice[s.index + 1] = 34 THEN
        IF scratch = <<>>
        THEN Result(Advance(s), result, "Borrowed", Slice(s, start), scratch)
        ELSE Result(Advance(s), result, "Copied",
                    scratch \o Slice(s, start), scratch \o Slice(s, start))
    ELSE IF s.slice[s.index + 1] = 92
    THEN SliceRead_parse_str_esc(
             parse_escape(Advance(s), validate, scratch \o Slice(s, start)),
             validate, result)
    ELSE IF validate
    THEN StrErr(Advance(s), scratch,
                error(Advance(s), "ControlCharacterWhileParsingString"))
    ELSE SliceRead_parse_str_loop(Advance(s), scratch, start, validate, result)

SliceRead_parse_str_loop(self, scratch, start, validate, result) ==
    SliceRead_parse_str_on(SliceRead_skip(self), scratch, start, validate, result)

\* a variant that borrows from the beginning of the slice
SliceRead_parse_str_bytes_from0(self, scratch, validate, result) ==
    SliceRead_parse_str_loop(self, scratch, 0, validate, result)

SliceRead_parse_str_bytes(self, scratch, validate, result) ==
    SliceRead_parse_str_loop(self, scratch, self.index, validate, result)

SliceRead_parse_str(self, scratch) ==
    SliceRead_parse_str_bytes(self, scratch, TRUE, "as_str")

SliceRead_parse_str_raw(self, scratch) ==
    SliceRead_parse_str_bytes(self, scratch, FALSE, "bytes")

RECURSIVE SliceRead_ignore_str(_)

SliceRead_ignore_str_esc(e) ==
    IF ~e.ok THEN StrErr(e.r, <<>>, e.err) ELSE SliceRead_ignore_str(e.r)

SliceRead_ignore_str_on(s) ==
    IF s.index = Len(s.slice)
    THEN StrErr(s, <<>>, error(s, "EofWhileParsingString"))
    ELSE IF s.slice[s.index + 1] = 34 THEN StrOk(Advance(s), "Unit", <<>>, <<>>)
    ELSE IF s.slice[s.index + 1] = 92
    THEN SliceRead_ignore_str_esc(ignore_escape(Advance(s)))
    ELSE StrErr(s, <<>>, error(s, "ControlCharacterWhileParsingString"))

SliceRead_ignore_str(self) == SliceRead_ignore_str_on(SliceRead_skip(self))

\* a variant that passes validate = false
StrRead_parse_str_novalidate(self, scratch) ==
    Delegated(self, SliceRead_parse_str_bytes(self.delegate, scratch, FALSE, "unchecked"))

StrRead_parse_str(self, scratch) ==
    Delegated(self, SliceRead_parse_str_bytes(self.delegate, scratch, TRUE, "unchecked"))

StrRead_parse_str_raw(self, scratch) ==
    Delegated(self, SliceRead_parse_str_raw(self.delegate, scratch))

StrRead_ignore_str(self) == Delegated(self, SliceRead_ignore_str(self.delegate))

Read_parse_str(r, scratch) ==
    CASE r.kind = "io" -> IoRead_parse_str(r, scratch)
      [] r.kind = "slice" -> SliceRead_parse_str(r, scratch)
      [] r.kind = "str" -> StrRead_parse_str(r, scratch)

Read_parse_str_raw(r, scratch) ==
    CASE r.kind = "io" -> IoRead_parse_str_raw(r, scratch)
      [] r.kind = "slice" -> SliceRead_parse_str_raw(r, scratch)
      [] r.kind = "str" -> StrRead_parse_str_raw(r, scratch)

Read_ignore_str(r) ==
    CASE r.kind = "io" -> IoRead_ignore_str(r)
      [] r.kind = "slice" -> SliceRead_ignore_str(r)
      [] r.kind = "str" -> StrRead_ignore_str(r)

----------------------------------------------------------------------------
(* The state machine: a caller holding one source and calling its          *)
(* operations.                                                             *)

NoRes == [tag |-> "none", bytes |-> <<>>, scratch |-> <<>>, err |-> NoError]

Call(op, val) ==
    [op |-> op, val |-> val, res |-> NoRes, scratch0 |-> <<>>, start |-> 0, at |-> 0]

\* the number of items of the input before the cursor
ItemPos(r) ==
    CASE r.kind = "io" -> r.iter.iter.pos - (IF r.ch # None THEN 1 ELSE 0)
      [] r.kind = "slice" -> r.index
      [] r.kind = "str" -> r.delegate.index

StrCall(op, r, scratch0, out) ==
    [op |-> op, val |-> None,
     res |-> [tag |-> out.tag, bytes |-> out.bytes, scratch |-> out.scratch, err |-> out.err],
     scratch0 |-> scratch0, start |-> Read_byte_offset(r), at |-> ItemPos(r)]

Read_new(kind, data) ==
    CASE kind = "io" -> IoRead_new(data)
      [] kind = "slice" -> SliceRead_new(data)
      [] kind = "str" -> StrRead_new(data)

\* no serializer is at work: nothing written, no formatter method called
SerIdle ==
    /\ writer = <<>>
    /\ formatter = [kind |-> "none"]
    /\ calls = <<>>
    /\ ser = [state |-> "none"]

\* no Map, Value or Error is under test
ValIdle ==
    /\ obj = [kind |-> "none"]
    /\ ret = [op |-> "none"]

\* the source of the given kind over data, just constructed
ReadInit(kind, data, g) ==
    /\ input = data
    /\ rd = Read_new(kind, data)
    /\ failed = FALSE
    /\ last = Call("new", None)
    /\ consumed = <<>>
    /\ latched = FALSE
    /\ gen = g

\* the state after construction of a source of the given kind over data
Construct(kind, data, g) ==
    /\ ReadInit(kind, data, g)
    /\ SerIdle
    /\ ValIdle

\* the bytes of the input before the cursor
ConsumedUpTo(r) == SubSeq(OkBytes(input), 1, Read_byte_offset(r))

next_on(n) ==
    /\ rd' = n.r
    /\ last' = Call("next", n.v)
    /\ consumed' = IF n.v \in Byte THEN Append(consumed, n.v) ELSE consumed
    /\ UNCHANGED <<input, failed, latched, gen, ser_vars, val_vars>>

next == next_on(Read_next(rd))

peek_on(n) ==
    /\ rd' = n.r
    /\ last' = Call("peek", n.v)
    /\ UNCHANGED <<input, failed, consumed, latched, gen, ser_vars, val_vars>>

peek == peek_on(Read_peek(rd))

\* discard() is called only directly after a peek() that returned a byte
discard ==
    /\ last.op = "peek"
    /\ last.val \in Byte
    /\ rd' = Read_discard(rd)
    /\ last' = Call("discard", last.val)
    /\ consumed' = Append(consumed, last.val)
    /\ UNCHANGED <<input, failed, latched, gen, ser_vars, val_vars>>

set_failed_on(f) ==
    /\ rd' = f.r
    /\ failed' = f.failed
    /\ last' = Call("set_failed", None)
    /\ latched' = TRUE
    /\ UNCHANGED <<input, consumed, gen, ser_vars, val_vars>>

set_failed == set_failed_on(Read_set_failed(rd, failed))

\* the string operations are called when the byte just consumed is the opening quote
AfterQuote == last.op \in {"next", "discard"} /\ last.val = 34

\* the scratch buffers a caller passes: cleared, or holding earlier bytes
Scratches == {<<>>, <<120>>}

StrReturn(op, scratch, out) ==
    /\ rd' = out.r
    /\ last' = StrCall(op, rd, scratch, out)
    /\ consumed' = ConsumedUpTo(out.r)
    /\ UNCHANGED <<input, failed, latched, gen, ser_vars, val_vars>>

parse_str ==
    /\ AfterQuote
    /\ \E scratch \in Scratches :
         StrReturn("parse_str", scratch, Read_parse_str(rd, scratch))

parse_str_raw ==
    /\ AfterQuote
    /\ \E scratch \in Scratches :
         StrReturn("parse_str_raw", scratch, Read_parse_str_raw(rd, scratch))

ignore_str ==
    /\ AfterQuote
    /\ StrReturn("ignore_str", <<>>, Read_ignore_str(rd))

----------------------------------------------------------------------------
(* Inputs *)

SeqsUpTo(S, n) == UNION {[1 .. k -> S] : k \in 0 .. n}

Kinds == {"slice", "str", "io"}

\* a slice or a str holds bytes only; only a reader can fail
ItemsOf(kind, bytes) == IF kind = "io" THEN bytes \cup {IoErr} ELSE bytes

----------------------------------------------------------------------------
(* The cursor: next, peek, discard and set_failed over short inputs of     *)
(* newlines, letters and quotes.                                           *)

MaxLen == 4

CursorBytes == {10, 97, 34}

CursorInit ==
    \E kind \in Kinds :
        \E data \in SeqsUpTo(ItemsOf(kind, CursorBytes), MaxLen) :
            Construct(kind, data, <<>>)

CursorNext == next \/ peek \/ discard \/ set_failed

CursorSpec == CursorInit /\ [][CursorNext]_vars

----------------------------------------------------------------------------
(* String bodies: the input is an opening quote followed by up to          *)
(* MaxChunks chunks; a text source is built over valid UTF-8 only.         *)

MaxChunks == 3

RECURSIVE Concat(_)
Concat(ss) == IF ss = <<>> THEN <<>> ELSE Head(ss) \o Concat(Tail(ss))

StrNext == next \/ parse_str \/ parse_str_raw \/ ignore_str

\* only a reader can fail: its chunks include the failing item
ChunksOf(kind, chunks) == IF kind = "io" THEN chunks \cup {<<IoErr>>} ELSE chunks

ChunkInit(chunks) ==
    \E kind \in Kinds :
        \E cs \in SeqsUpTo(ChunksOf(kind, chunks), MaxChunks) :
            /\ kind = "str" => Utf8Valid(Concat(cs))
            /\ Construct(kind, <<34>> \o Concat(cs), cs)

\* a, n, the quote, the backslash, the control byte 0x1F, A and e-acute
StrChunks ==
    {<<97>>, <<110>>, <<34>>, <<92>>, <<31>>, <<92, 117, 48, 48, 52, 49>>, <<195, 169>>}

StrInit == ChunkInit(StrChunks)

StrSpec == StrInit /\ [][StrNext]_vars

----------------------------------------------------------------------------
(* Escapes written out: \uXXXX with upper-case or lower-case digits *)

HexDigit(d, upper) == IF d < 10 THEN 48 + d ELSE IF upper THEN 55 + d ELSE 87 + d

HexEscape(n, upper) ==
    <<92, 117, HexDigit(n \div 4096, upper), HexDigit((n \div 256) % 16, upper),
      HexDigit((n \div 16) % 16, upper), HexDigit(n % 16, upper)>>

----------------------------------------------------------------------------
(* Surrogate escapes alone, paired and cut short.                          *)

\* \uD83D, \ude00, A, \uD8zz, \uD, the backslash, n, the quote and a
SurrogateChunks ==
    {HexEscape(55357, TRUE), HexEscape(56832, FALSE), HexEscape(65, TRUE),
     <<92, 117, 68, 56, 122, 122>>, <<92, 117, 68>>, <<92>>, <<110>>, <<34>>, <<97>>}

SurrogateInit == ChunkInit(SurrogateChunks)

SurrogateSpec == SurrogateInit /\ [][StrNext]_vars

----------------------------------------------------------------------------
(* Raw bytes that are and are not UTF-8, next to escapes.                  *)

\* a, the quote, the two bytes of e-acute apart, an encoded surrogate, the
\* four bytes of U+1F600, \uD83D, \ude00 and the backslash
Utf8Chunks ==
    {<<97>>, <<34>>, <<195>>, <<169>>, <<237, 160, 128>>, <<240, 159, 152, 128>>,
     HexEscape(55357, TRUE), HexEscape(56832, FALSE), <<92>>}

Utf8Init == ChunkInit(Utf8Chunks)

Utf8Spec == Utf8Init /\ [][StrNext]_vars

----------------------------------------------------------------------------
(* One escape: a backslash, any byte c, and what follows.                  *)

EscapeTails == {<<>>, <<34>>, <<97, 34>>, <<48, 48, 52, 49, 34>>, <<169, 34>>}

EscapeInit ==
    \E kind \in Kinds :
        \E c \in Byte :
            \E tail \in EscapeTails :
                /\ kind = "str" => Utf8Valid(<<c>> \o tail)
                /\ Construct(kind, <<34, 92, c>> \o tail, [c |-> c, tail |-> tail])

EscapeSpec == EscapeInit /\ [][StrNext]_vars

----------------------------------------------------------------------------
(* One surrogate pair between up to MaxPad letters and a tail.             *)

MaxPad == 1

Highs == {55296, 55297, 55357, 55679, 56319}

Lows == {56320, 56321, 56832, 57003, 57343}

Pads == {[i \in 1 .. k |-> 97] : k \in 0 .. MaxPad}

PairTails == {<<>>, <<34>>, <<97, 34>>, <<92>>}

PairInit ==
    \E kind \in Kinds :
        \E h \in Highs, l \in Lows :
            \E uh \in BOOLEAN, ul \in BOOLEAN :
                \E pre \in Pads, post \in PairTails :
                    Construct(kind,
                              <<34>> \o pre \o HexEscape(h, uh) \o HexEscape(l, ul) \o post,
                              [h |-> h, l |-> l, pre |-> pre, post |-> post])

PairSpec == PairInit /\ [][StrNext]_vars

----------------------------------------------------------------------------
(* Properties of the cursor *)

NewlinesIn(s) == Cardinality({i \in 1 .. Len(s) : s[i] = 10})

LastNewline(s) ==
    IF \E i \in 1 .. Len(s) : s[i] = 10
    THEN CHOOSE i \in 1 .. Len(s) : s[i] = 10 /\ \A j \in (i + 1) .. Len(s) : s[j] # 10
    ELSE 0

SinceNewline(s) == Len(s) - LastNewline(s)

NoPeekOutstanding == rd.kind = "io" => rd.ch = None

\* the tracker of the reader source run over the first n bytes of data
RECURSIVE TrackerAfter(_, _)
TrackerAfter(data, n) ==
    IF n = 0 THEN LineColIterator_new(Bytes_new(data))
    ELSE LineColIterator_next(TrackerAfter(data, n - 1)).it

\* C8: with no peek outstanding, the reported line is 1 + the number of
\* newlines consumed and the column is the number of bytes consumed since the
\* last newline; the tracker of the reader source and the recomputation of the
\* slice source agree on every consumed prefix.
C8_PositionCountsNewlines ==
    NoPeekOutstanding =>
        LET p == Read_position(rd)
            bytes == OkBytes(input)
            n == Len(consumed)
            tracker == TrackerAfter(bytes, n)
        IN
        /\ p.line = 1 + NewlinesIn(consumed)
        /\ p.column = SinceNewline(consumed)
        /\ p.line >= 1
        /\ p = SliceRead_position_of_index(SliceRead_new(bytes), n)
        /\ p = [line |-> LineColIterator_line(tracker), column |-> LineColIterator_col(tracker)]

C8_Witness ==
    /\ rd.kind = "io"
    /\ rd.ch = None
    /\ Len(consumed) >= 3
    /\ NewlinesIn(consumed) >= 1
    /\ SinceNewline(consumed) >= 1
    /\ IoErr \in {input[i] : i \in 1 .. Len(input)}

\* the bytes the reader source has pulled from its reader
Pulled(r) == OkBytes(SubSeq(input, 1, r.iter.iter.pos))

C9_Inv ==
    /\ consumed = SubSeq(OkBytes(input), 1, Len(consumed))
    /\ Read_byte_offset(rd) = Len(consumed)
    /\ rd.kind = "io" =>
          Len(Pulled(rd)) - Len(consumed) = (IF rd.ch # None THEN 1 ELSE 0)
    /\ rd.kind = "slice" => rd.index = Len(consumed)
    /\ rd.kind = "str" => rd.delegate.index = Len(consumed)
    /\ (~latched /\ last.op = "next" /\ last.val = None) => consumed = OkBytes(input)

C9_Act ==
    /\ last'.op = "peek" => Read_byte_offset(rd') = Read_byte_offset(rd)
    /\ (last.op = "peek" /\ last.val \in Byte /\ last'.op \in {"peek", "next"})
          => last'.val = last.val
    /\ last'.op = "discard" => (rd' = Read_next(rd).r /\ Read_next(rd).v = last.val)
    /\ (last'.op = "next" /\ last'.val \in Byte)
          => last'.val = OkBytes(input)[Len(consumed) + 1]

\* C9: peek consumes nothing and repeats its byte, next after peek returns
\* that byte, peek and discard together act as next, the bytes are consumed in
\* input order with none skipped or repeated, and the source holds at most the
\* one peeked byte.
C9_PeekNextDiscard == [](C9_Inv) /\ [][C9_Act]_vars

C9_Witness ==
    /\ rd.kind = "io"
    /\ last.op = "discard"
    /\ Len(consumed) >= 3
    /\ consumed = OkBytes(input)

C10_Inv ==
    /\ (latched /\ rd.kind \in {"slice", "str"}) =>
          /\ Read_next(rd).v = None
          /\ Read_peek(rd).v = None
          /\ last.op \in {"next", "peek"} => last.val = None
    /\ (latched /\ rd.kind = "io") => failed
    /\ latched =>
          IF Read_should_early_return_if_failed(rd) THEN failed
          ELSE Read_peek(rd).v = None
    /\ Read_should_early_return_if_failed(rd) <=> rd.kind = "io"

C10_Act ==
    /\ (latched' /\ rd.kind \in {"slice", "str"})
          => Read_byte_offset(rd') = Read_byte_offset(rd)
    /\ failed => failed'

\* C10: once set_failed has been called on a slice or text source, next and
\* peek return end-of-input from then on and the byte offset stays where it is;
\* on a reader source the caller's flag is set and stays set; only the reader
\* source asks its caller to test the flag.
C10_FailureLatch == [](C10_Inv) /\ [][C10_Act]_vars

C10_Witness ==
    /\ latched
    /\ rd.kind = "slice"
    /\ last.op = "next"
    /\ rd.index + 2 <= Len(input)

----------------------------------------------------------------------------
(* Properties of the string parser *)

IsStrOp == last.op \in {"parse_str", "parse_str_raw"}

Succeeded == last.res.tag \in {"Borrowed", "Copied"}

Items(s) == {s[i] : i \in 1 .. Len(s)}

\* the bytes from the cursor at the call up to the first quote after it
HasQuote == \E i \in (last.start + 1) .. Len(input) : input[i] = 34

FirstQuote ==
    CHOOSE i \in (last.start + 1) .. Len(input) :
        input[i] = 34 /\ \A j \in (last.start + 1) .. (i - 1) : input[j] # 34

UpToFirstQuote == SubSeq(input, last.start + 1, FirstQuote - 1)

\* C1: on a slice or text source called with an empty scratch buffer, a
\* returned string is Borrowed exactly when no backslash precedes the closing
\* quote; a Borrowed result is the input from the starting index up to the
\* quote with the cursor just past it, and a result built after an escape is
\* Copied.
C1_BorrowedIffNoEscape ==
    (IsStrOp /\ rd.kind \in {"slice", "str"} /\ last.scratch0 = <<>>) =>
        /\ Succeeded =>
              /\ HasQuote
              /\ last.res.tag = "Borrowed" <=> 92 \notin Items(UpToFirstQuote)
              /\ input[Read_byte_offset(rd)] = 34
        /\ last.res.tag = "Borrowed" =>
              /\ last.res.bytes = UpToFirstQuote
              /\ Read_byte_offset(rd) = FirstQuote
              /\ last.res.scratch = <<>>
        /\ last.res.tag = "Copied" =>
              /\ last.res.bytes = last.res.scratch
              /\ last.res.scratch # <<>>
        /\ (last.op = "parse_str_raw" /\ HasQuote /\ 92 \notin Items(UpToFirstQuote))
              => last.res.tag = "Borrowed"

C1_Witness ==
    /\ last.op = "parse_str"
    /\ rd.kind = "slice"
    /\ last.scratch0 = <<>>
    /\ last.res.tag = "Borrowed"
    /\ last.res.bytes = <<97, 195, 169>>

\* the source is between escapes after these items: a quote put there closes
\* the string
OutsideEscape(kind, prefix) ==
    LET t == Read_parse_str(Read_new(kind, prefix \o <<34>>), <<>>) IN
    /\ t.tag # "Err" \/ t.err.code = "InvalidUnicodeCodePoint"
    /\ Read_byte_offset(t.r) = Len(OkBytes(prefix)) + 1

\* C6: parse_str fails with ControlCharacterWhileParsingString at the first
\* raw byte below 0x20 outside an escape and before the closing quote, on
\* every source; a string it returns was read from no raw byte below 0x20.
C6_ControlCharacterRejected ==
    last.op = "parse_str" =>
        LET rem == SubSeq(input, last.at + 1, Len(input))
            bytes == OkBytes(input)
            off == Read_byte_offset(rd)
        IN
        /\ \A k \in 1 .. Len(rem) :
              (/\ rem[k] < 32
               /\ \A j \in 1 .. (k - 1) : rem[j] >= 32
               /\ OutsideEscape(rd.kind, SubSeq(rem, 1, k - 1)))
              => /\ last.res.tag = "Err"
                 /\ last.res.err.code = "ControlCharacterWhileParsingString"
                 /\ off = last.start + Len(OkBytes(SubSeq(rem, 1, k)))
                 /\ [line |-> last.res.err.line, column |-> last.res.err.column]
                       = PositionFold(bytes, off)
        /\ Succeeded =>
              /\ \A i \in (last.start + 1) .. off : bytes[i] >= 32
              /\ Cardinality({i \in (Len(last.scratch0) + 1) .. Len(last.res.bytes) :
                                 last.res.bytes[i] < 32})
                    <= Cardinality({i \in (last.start + 1) .. off : bytes[i] = 92})

C6_Witness ==
    /\ last.op = "parse_str"
    /\ rd.kind = "io"
    /\ last.res.err.code = "ControlCharacterWhileParsingString"
    /\ Read_byte_offset(rd) = last.start + 7
    /\ input[last.at + 1] = 92

----------------------------------------------------------------------------
(* Properties of the escapes *)

\* the value of a hexadecimal digit, -1 for any other item
DigitValue(b) ==
    IF b \in 48 .. 57 THEN b - 48
    ELSE IF b \in 65 .. 70 THEN b - 55
    ELSE IF b \in 97 .. 102 THEN b - 87
    ELSE -1

\* s holds a backslash, u and four hexadecimal digits from k on
IsHexEscapeAt(s, k) ==
    /\ k + 5 <= Len(s)
    /\ s[k] = 92
    /\ s[k + 1] = 117
    /\ \A j \in 2 .. 5 : DigitValue(s[k + j]) >= 0

EscapeValueAt(s, k) ==
    DigitValue(s[k + 2]) * 4096 + DigitValue(s[k + 3]) * 256
        + DigitValue(s[k + 4]) * 16 + DigitValue(s[k + 5])

IsHigh(n) == n \in 55296 .. 56319

IsLow(n) == n \in 56320 .. 57343

\* the items of the input from the cursor at the call on
Remaining == SubSeq(input, last.at + 1, Len(input))

\* a \u escape at k of the remaining input, after items that parse cleanly
EscapeAt(k) ==
    /\ IsHexEscapeAt(Remaining, k)
    /\ OutsideEscape(rd.kind, SubSeq(Remaining, 1, k - 1))

\* the escape at k is a surrogate outside a high+low pair
UnpairedAt(k) ==
    \/ IsLow(EscapeValueAt(Remaining, k))
    \/ /\ IsHigh(EscapeValueAt(Remaining, k))
       /\ ~(/\ IsHexEscapeAt(Remaining, k + 6)
            /\ IsLow(EscapeValueAt(Remaining, k + 6)))

\* what follows the escape at k is there to be judged: a byte other than the
\* backslash, a backslash and a byte other than u, or a whole \u escape
FollowerPresent(k) ==
    LET s == Remaining IN
    \/ k + 6 <= Len(s) /\ s[k + 6] \in Byte /\ s[k + 6] # 92
    \/ k + 7 <= Len(s) /\ s[k + 6] = 92 /\ s[k + 7] \in Byte /\ s[k + 7] # 117
    \/ IsHexEscapeAt(s, k + 6)

SurrogateCodes == {"UnexpectedEndOfHexEscape", "LoneLeadingSurrogateInHexEscape"}

\* the code point of a pair and its four bytes, by arithmetic
PairCodePoint(h, l) == (h - 55296) * 1024 + (l - 56320) + 65536

FourBytes(cp) ==
    <<240 + (cp \div 262144), 128 + ((cp \div 4096) % 64), 128 + ((cp \div 64) % 64),
      128 + (cp % 64)>>

\* the three bytes 1110xxxx 10xxxxxx 10xxxxxx of a 16-bit value, by arithmetic
ThreeBytes(n) == <<224 + (n \div 4096), 128 + ((n \div 64) % 64), 128 + (n % 64)>>

BeforeQuote(s) ==
    SubSeq(s, 1, (CHOOSE i \in 1 .. Len(s) :
                      s[i] = 34 /\ \A j \in 1 .. (i - 1) : s[j] # 34) - 1)

IsPrefix(p, s) == Len(p) <= Len(s) /\ SubSeq(s, 1, Len(p)) = p

\* C2: a \u high surrogate immediately followed by a \u low surrogate appends
\* to scratch exactly the four UTF-8 bytes of
\* (((H - 0xD800) << 10) | (L - 0xDC00)) + 0x10000, in both validation modes
\* and on every source, and the string around it is returned with them.
C2_SurrogatePairCombined ==
    (IsStrOp /\ last.at = 1) =>
        LET decoded == last.scratch0 \o gen.pre \o FourBytes(PairCodePoint(gen.h, gen.l))
        IN
        /\ IsPrefix(decoded, last.res.scratch)
        /\ 34 \in Items(gen.post) =>
              /\ last.res.tag = "Copied"
              /\ last.res.bytes = decoded \o BeforeQuote(gen.post)
        /\ 34 \notin Items(gen.post) =>
              /\ last.res.err.code = "EofWhileParsingString"
              /\ last.res.scratch = decoded

C2_Witness ==
    /\ last.op = "parse_str_raw"
    /\ last.at = 1
    /\ rd.kind = "io"
    /\ gen.h = 55357
    /\ gen.l = 56832
    /\ last.res.bytes = <<240, 159, 152, 128>>

\* C3, as the code has it: with validation on, the first unpaired surrogate
\* escape makes parse_str fail.  A low surrogate fails with
\* LoneLeadingSurrogateInHexEscape.  A high surrogate fails with
\* UnexpectedEndOfHexEscape when a byte other than the backslash, or a
\* backslash and a byte other than u, follows it, and with
\* LoneLeadingSurrogateInHexEscape when a whole \u escape that is no low
\* surrogate follows it; when the input ends, the reader fails or a digit is
\* no hexadecimal digit before that is decided, the error is
\* EofWhileParsingString, the reader's error or InvalidEscape.
C3_UnpairedSurrogateRejected ==
    last.op = "parse_str" =>
        \A k \in 1 .. Len(Remaining) :
            (EscapeAt(k) /\ UnpairedAt(k)) =>
                /\ last.res.tag = "Err"
                /\ IsLow(EscapeValueAt(Remaining, k)) =>
                      /\ last.res.err.code = "LoneLeadingSurrogateInHexEscape"
                      /\ Read_byte_offset(rd) = last.start + k + 5
                /\ IsHigh(EscapeValueAt(Remaining, k)) =>
                      IF IsHexEscapeAt(Remaining, k + 6)
                      THEN last.res.err.code = "LoneLeadingSurrogateInHexEscape"
                      ELSE IF FollowerPresent(k)
                      THEN last.res.err.code = "UnexpectedEndOfHexEscape"
                      ELSE /\ last.res.err.code \in
                                 {"EofWhileParsingString", "InvalidEscape", "Io"}
                           /\ last.res.err.code = "Io" => rd.kind = "io"

C3_Witness ==
    /\ last.op = "parse_str"
    /\ last.at = 1
    /\ rd.kind = "str"
    /\ gen = <<HexEscape(55357, TRUE), HexEscape(65, TRUE), <<34>>>>
    /\ last.res.err.code = "LoneLeadingSurrogateInHexEscape"

\* C3, as stated: the first unpaired surrogate escape makes parse_str fail,
\* a low surrogate with LoneLeadingSurrogateInHexEscape and a high surrogate
\* with UnexpectedEndOfHexEscape or LoneLeadingSurrogateInHexEscape.
C3_AsStated ==
    last.op = "parse_str" =>
        \A k \in 1 .. Len(Remaining) :
            (EscapeAt(k) /\ UnpairedAt(k)) =>
                /\ last.res.tag = "Err"
                /\ IsLow(EscapeValueAt(Remaining, k)) =>
                      last.res.err.code = "LoneLeadingSurrogateInHexEscape"
                /\ IsHigh(EscapeValueAt(Remaining, k)) =>
                      last.res.err.code \in SurrogateCodes

\* the bytes parse_str_raw decodes from the items before the escape at k
DecodedBefore(k) ==
    Read_parse_str_raw(Read_new(rd.kind, SubSeq(Remaining, 1, k - 1) \o <<34>>),
                       last.scratch0).bytes

\* C4: with validation off, an unpaired surrogate escape is never an error:
\* parse_str_raw does not fail with a surrogate error, and the string it
\* returns holds the three bytes 1110xxxx 10xxxxxx 10xxxxxx of the escape
\* after the bytes decoded before it.
C4_RawKeepsUnpairedSurrogate ==
    last.op = "parse_str_raw" =>
        \A k \in 1 .. Len(Remaining) :
            (EscapeAt(k) /\ UnpairedAt(k)) =>
                /\ last.res.err.code \notin SurrogateCodes
                /\ Succeeded =>
                      IsPrefix(DecodedBefore(k) \o ThreeBytes(EscapeValueAt(Remaining, k)),
                               last.res.bytes)

\* C5: the claim's table of single-byte escapes
EscapedBytes ==
    [c \in {34, 92, 47, 98, 102, 110, 114, 116} |->
        CASE c = 34 -> 34
          [] c = 92 -> 92
          [] c = 47 -> 47
          [] c = 98 -> 8
          [] c = 102 -> 12
          [] c = 110 -> 10
          [] c = 114 -> 13
          [] c = 116 -> 9]

\* C5, on parse_escape and ignore_escape themselves, called where the
\* backslash has just been consumed
C5_AtBackslash ==
    \A validate \in BOOLEAN, scratch \in Scratches :
        LET e == parse_escape(rd, validate, scratch)
            i == ignore_escape(rd)
        IN
        /\ gen.c \in DOMAIN EscapedBytes =>
              /\ e.ok
              /\ e.scratch = Append(scratch, EscapedBytes[gen.c])
              /\ Read_byte_offset(e.r) = Read_byte_offset(rd) + 1
              /\ ItemPos(e.r) = ItemPos(rd) + 1
        /\ gen.c \notin DOMAIN EscapedBytes \cup {117} =>
              /\ ~e.ok
              /\ e.err.code = "InvalidEscape"
              /\ e.scratch = scratch
        /\ i.ok <=> e.ok
        /\ i.err.code = e.err.code

\* C5: after a backslash, each of " \ / b f n r t appends its one byte
\* (0x22 0x5C 0x2F 0x08 0x0C 0x0A 0x0D 0x09) and consumes one input byte; any
\* other byte but u fails with InvalidEscape and appends nothing; ignore_escape
\* accepts and rejects the same bytes.
C5_SimpleEscapes ==
    /\ (last.op = "next" /\ last.val = 92 /\ Len(consumed) = 2) => C5_AtBackslash
    /\ (IsStrOp /\ last.at = 1 /\ gen.c \in DOMAIN EscapedBytes) =>
          /\ IsPrefix(Append(last.scratch0, EscapedBytes[gen.c]), last.res.scratch)
          /\ last.res.err.code # "InvalidEscape"
          /\ Succeeded =>
                last.res.bytes = Append(last.scratch0, EscapedBytes[gen.c])
                                    \o BeforeQuote(gen.tail)
    /\ (IsStrOp /\ last.at = 1 /\ gen.c \notin DOMAIN EscapedBytes \cup {117}) =>
          /\ last.res.err.code = "InvalidEscape"
          /\ last.res.scratch = last.scratch0
          /\ ItemPos(rd) = last.at + 2
    /\ (last.op = "ignore_str" /\ last.at = 1) =>
          /\ gen.c \in DOMAIN EscapedBytes => last.res.err.code # "InvalidEscape"
          /\ gen.c \notin DOMAIN EscapedBytes \cup {117} =>
                /\ last.res.err.code = "InvalidEscape"
                /\ ItemPos(rd) = last.at + 2

C5_Witness ==
    /\ last.op = "parse_str"
    /\ last.at = 1
    /\ rd.kind = "io"
    /\ gen.c = 98
    /\ gen.tail = <<97, 34>>
    /\ last.res.bytes = <<8, 97>>

\* the UTF-8 encoding of a scalar value, by arithmetic
Utf8Of(c) ==
    IF c < 128 THEN <<c>>
    ELSE IF c < 2048 THEN <<192 + (c \div 64), 128 + (c % 64)>>
    ELSE IF c < 65536 THEN <<224 + (c \div 4096), 128 + ((c \div 64) % 64), 128 + (c % 64)>>
    ELSE FourBytes(c)

\* the value the first k bytes of s would encode
ValueOf(s, k) ==
    CASE k = 1 -> s[1]
      [] k = 2 -> ((s[1] % 32) * 64) + (s[2] % 64)
      [] k = 3 -> ((s[1] % 16) * 4096) + ((s[2] % 64) * 64) + (s[3] % 64)
      [] k = 4 -> ((s[1] % 8) * 262144) + ((s[2] % 64) * 4096)
                 + ((s[3] % 64) * 64) + (s[4] % 64)

IsScalar(c) == c \in 0 .. 1114111 /\ c \notin 55296 .. 57343

\* s is the concatenation of the UTF-8 encodings of scalar values
RECURSIVE WellFormedUtf8(_)
WellFormedUtf8(s) ==
    \/ s = <<>>
    \/ \E k \in 1 .. (IF Len(s) < 4 THEN Len(s) ELSE 4) :
          /\ IsScalar(ValueOf(s, k))
          /\ Utf8Of(ValueOf(s, k)) = SubSeq(s, 1, k)
          /\ WellFormedUtf8(SubSeq(s, k + 1, Len(s)))

\* C7: every string parse_str returns is well-formed UTF-8, on a slice or a
\* reader of arbitrary bytes and on a text source over valid UTF-8; on a slice
\* or a reader, raw bytes up to the closing quote that are not UTF-8 yield
\* InvalidUnicodeCodePoint.
C7_ReturnedStringsAreUtf8 ==
    last.op = "parse_str" =>
        /\ Succeeded => WellFormedUtf8(last.res.bytes)
        /\ (/\ rd.kind \in {"slice", "io"}
            /\ HasQuote
            /\ \A i \in 1 .. Len(UpToFirstQuote) :
                   UpToFirstQuote[i] \in Byte \ {92} /\ UpToFirstQuote[i] >= 32
            /\ last.at = last.start
            /\ ~WellFormedUtf8(UpToFirstQuote))
              => last.res.err.code = "InvalidUnicodeCodePoint"

C7_Witness ==
    /\ last.op = "parse_str"
    /\ rd.kind = "str"
    /\ last.scratch0 = <<120>>
    /\ gen = <<HexEscape(55357, TRUE), HexEscape(56832, FALSE), <<34>>>>
    /\ last.res.bytes = <<120, 240, 159, 152, 128>>

----------------------------------------------------------------------------
(* ser.rs: the writer and the string methods of Formatter.  An emitter e   *)
(* is the writer, the formatter and the history of the formatter methods   *)
(* called; panic is set once an unreachable!() has been executed.          *)

Emitter(w, f, c) == [writer |-> w, formatter |-> f, calls |-> c, panic |-> FALSE]

\* writer.write_all(bytes) on a writer that takes every byte
write_all(e, bytes) == [e EXCEPT !.writer = @ \o bytes]

\* history: the method fn has been called with arg
Called(e, fn, arg) == [e EXCEPT !.calls = Append(@, [fn |-> fn, arg |-> arg])]

CompactFormatter == [kind |-> "compact"]

Formatter_begin_string(e) == write_all(Called(e, "begin_string", <<>>), <<34>>)

Formatter_end_string(e) == write_all(Called(e, "end_string", <<>>), <<34>>)

Formatter_write_string_fragment(e, fragment) ==
    write_all(Called(e, "write_string_fragment", fragment), fragment)

BB == 98
TT == 116
NN == 110
FF == 102
RR == 114
QU == 34
BS == 92
UU == 117
NoEscape == 0

\* a table that leaves the backslash as it is
ser_ESCAPE_no_backslash(byte) ==
    IF byte = 8 THEN BB
    ELSE IF byte = 9 THEN TT
    ELSE IF byte = 10 THEN NN
    ELSE IF byte = 12 THEN FF
    ELSE IF byte = 13 THEN RR
    ELSE IF byte < 32 THEN UU
    ELSE IF byte = 34 THEN QU
    ELSE NoEscape

\* static ESCAPE: [u8; 256] of ser.rs
ser_ESCAPE(byte) ==
    IF byte = 8 THEN BB
    ELSE IF byte = 9 THEN TT
    ELSE IF byte = 10 THEN NN
    ELSE IF byte = 12 THEN FF
    ELSE IF byte = 13 THEN RR
    ELSE IF byte < 32 THEN UU
    ELSE IF byte = 34 THEN QU
    ELSE IF byte = 92 THEN BS
    ELSE NoEscape

CharEscape(tag, byte) == [tag |-> tag, byte |-> byte]

CharEscape_from_escape_table(escape, byte) ==
    CASE escape = BB -> CharEscape("Backspace", 0)
      [] escape = TT -> CharEscape("Tab", 0)
      [] escape = NN -> CharEscape("LineFeed", 0)
      [] escape = FF -> CharEscape("FormFeed", 0)
      [] escape = RR -> CharEscape("CarriageReturn", 0)
      [] escape = QU -> CharEscape("Quote", 0)
      [] escape = BS -> CharEscape("ReverseSolidus", 0)
      [] escape = UU -> CharEscape("AsciiControl", byte)
      [] OTHER -> CharEscape("unreachable", 0)

\* a table of upper-case digits
HEX_DIGITS_upper == <<48, 49, 50, 51, 52, 53, 54, 55, 56, 57, 65, 66, 67, 68, 69, 70>>

\* static HEX_DIGITS: [u8; 16] = *b"0123456789abcdef"
HEX_DIGITS == <<48, 49, 50, 51, 52, 53, 54, 55, 56, 57, 97, 98, 99, 100, 101, 102>>

\* the bytes write_char_escape hands to write_all
CharEscape_bytes(char_escape) ==
    CASE char_escape.tag = "Quote" -> <<92, 34>>
      [] char_escape.tag = "ReverseSolidus" -> <<92, 92>>
      [] char_escape.tag = "Solidus" -> <<92, 47>>
      [] char_escape.tag = "Backspace" -> <<92, 98>>
      [] char_escape.tag = "FormFeed" -> <<92, 102>>
      [] char_escape.tag = "LineFeed" -> <<92, 110>>
      [] char_escape.tag = "CarriageReturn" -> <<92, 114>>
      [] char_escape.tag = "Tab" -> <<92, 116>>
      [] char_escape.tag = "AsciiControl" ->
            <<92, 117, 48, 48, HEX_DIGITS[Shr(char_escape.byte, 4) + 1],
              HEX_DIGITS[BitAnd(char_escape.byte, 15) + 1]>>

Formatter_write_char_escape(e, char_escape) ==
    write_all(Called(e, "write_char_escape", char_escape), CharEscape_bytes(char_escape))

\* unreachable!()
Panic(e) == [e EXCEPT !.panic = TRUE]

\* &value[start..i]
Fragment(value, start, i) == SubSeq(value, start + 1, i)

RECURSIVE format_escaped_str_loop(_, _, _, _)

\* write_char_escape(from_escape_table(..)); start = i + 1
format_escaped_str_char(e, value, i, char_escape) ==
    IF char_escape.tag = "unreachable" THEN Panic(e)
    ELSE format_escaped_str_loop(Formatter_write_char_escape(e, char_escape),
                                 value, i + 1, i + 1)

\* the loop body at a byte whose table entry is not 0, the run before it written
format_escaped_str_escape(e, value, i) ==
    format_escaped_str_char(e, value, i,
        CharEscape_from_escape_table(ser_ESCAPE(value[i + 1]), value[i + 1]))

\* for (i, &byte) in bytes.iter().enumerate() { .. }, and what follows the loop
format_escaped_str_loop(e, value, start, i) ==
    IF i = Len(value)
    THEN IF start = Len(value) THEN e
         ELSE Formatter_write_string_fragment(e, Fragment(value, start, Len(value)))
    ELSE IF ser_ESCAPE(value[i + 1]) = 0
    THEN format_escaped_str_loop(e, value, start, i + 1)
    ELSE IF start < i
    THEN format_escaped_str_escape(
             Formatter_write_string_fragment(e, Fragment(value, start, i)), value, i)
    ELSE format_escaped_str_escape(e, value, i)

format_escaped_str_contents(e, value) == format_escaped_str_loop(e, value, 0, 0)

\* formatter.end_string(writer), reached unless the contents panicked
format_escaped_str_end(e) == IF e.panic THEN e ELSE Formatter_end_string(e)

format_escaped_str(e, value) ==
    format_escaped_str_end(format_escaped_str_contents(Formatter_begin_string(e), value))

----------------------------------------------------------------------------
(* A string is written by format_escaped_str into an empty writer, and a   *)
(* source is then built over the bytes written.                            *)

SerResult(state, err) == [state |-> state, err |-> err]

\* the emitter of the state
Self == Emitter(writer, formatter, calls)

\* the emitter e is what the serializer holds from now on
Emit(e, result) ==
    /\ writer' = e.writer
    /\ formatter' = e.formatter
    /\ calls' = e.calls
    /\ ser' = result

\* a serializer over an empty writer, about to write the str of gen
StrEmitInit(kind, s) ==
    /\ ReadInit(kind, <<>>, [s |-> s])
    /\ writer = <<>>
    /\ formatter = CompactFormatter
    /\ calls = <<>>
    /\ ser = SerResult("new", NoError)
    /\ ValIdle

format_escaped_str_done(e) ==
    /\ Emit(e, SerResult(IF e.panic THEN "panic" ELSE "done", NoError))
    /\ UNCHANGED <<read_vars, val_vars>>

emit_str ==
    /\ ser.state = "new"
    /\ format_escaped_str_done(format_escaped_str(Self, gen.s))

\* a source over the bytes written
read_back ==
    /\ ser.state = "done"
    /\ input = <<>>
    /\ input' = writer
    /\ rd' = Read_new(rd.kind, writer)
    /\ last' = Call("new", None)
    /\ consumed' = <<>>
    /\ UNCHANGED <<failed, latched, gen, ser_vars, val_vars>>

EmitNext == emit_str \/ read_back \/ next \/ parse_str \/ parse_str_raw \/ ignore_str

\* a, the quote, the backslash, the slash, backspace, newline, 0x1F, 0x7F,
\* e-acute and U+1F600
EmitChunks ==
    {<<97>>, <<34>>, <<92>>, <<47>>, <<8>>, <<10>>, <<31>>, <<127>>, <<195, 169>>,
     <<240, 159, 152, 128>>}

RoundTripInit ==
    \E kind \in Kinds :
        \E cs \in SeqsUpTo(EmitChunks, MaxChunks) : StrEmitInit(kind, Concat(cs))

RoundTripSpec == RoundTripInit /\ [][EmitNext]_vars

\* every character of one byte, and some of two, three and four, between two
\* short strings
EmitChars ==
    {<<b>> : b \in 0 .. 127}
        \cup {<<194, 128>>, <<195, 169>>, <<223, 191>>, <<224, 160, 128>>, <<239, 191, 191>>,
              <<240, 159, 152, 128>>, <<244, 143, 191, 191>>}

EmitPads == {<<>>, <<97>>, <<34>>, <<195, 169>>}

EscapeTableInit ==
    \E pre \in EmitPads, post \in EmitPads :
        \E c \in EmitChars : StrEmitInit("slice", pre \o c \o post)

EscapeTableSpec == EscapeTableInit /\ [][EmitNext]_vars

----------------------------------------------------------------------------
(* Properties of the string writer *)

\* what the claim's table writes for one byte
EscapedForm(b) ==
    CASE b = 8 -> <<92, 98>>
      [] b = 9 -> <<92, 116>>
      [] b = 10 -> <<92, 110>>
      [] b = 12 -> <<92, 102>>
      [] b = 13 -> <<92, 114>>
      [] b = 34 -> <<92, 34>>
      [] b = 92 -> <<92, 92>>
      [] b < 32 /\ b \notin {8, 9, 10, 12, 13} ->
            <<92, 117, 48, 48, 48 + (b \div 16),
              IF b % 16 < 10 THEN 48 + (b % 16) ELSE 87 + (b % 16)>>
      [] OTHER -> <<b>>

RECURSIVE EscapedBody(_)
EscapedBody(s) == IF s = <<>> THEN <<>> ELSE EscapedForm(Head(s)) \o EscapedBody(Tail(s))

\* the source has just been asked for the string body the serializer wrote
Reparsed == last.op = "parse_str" /\ last.at = 1 /\ input = writer /\ ser.state = "done"

\* C11: the bytes format_escaped_str writes for s are a quote, a body and a
\* quote, and are UTF-8; parse_str on the body and the closing quote succeeds
\* on every source, returns exactly s and stops at the end; writing the
\* returned string again gives the same bytes.
C11_StringRoundTrip ==
    /\ ser.state = "done" =>
          /\ Len(writer) >= 2
          /\ writer[1] = 34
          /\ writer[Len(writer)] = 34
          /\ Utf8Valid(writer)
    /\ ser.state # "panic"
    /\ Reparsed =>
          /\ Succeeded
          /\ last.res.bytes = last.scratch0 \o gen.s
          /\ ItemPos(rd) = Len(input)
          /\ format_escaped_str(Emitter(<<>>, CompactFormatter, <<>>),
                                SubSeq(last.res.bytes, Len(last.scratch0) + 1,
                                       Len(last.res.bytes))).writer = writer

C11_Witness ==
    /\ Reparsed
    /\ rd.kind = "io"
    /\ gen.s = <<92, 10, 34>>
    /\ last.res.tag = "Copied"
    /\ last.res.bytes = <<92, 10, 34>>

\* the bytes a formatter call wrote
CallBytes(c) ==
    CASE c.fn = "write_string_fragment" -> c.arg
      [] c.fn = "write_char_escape" -> CharEscape_bytes(c.arg)
      [] OTHER -> <<34>>

RECURSIVE CallsBytes(_)
CallsBytes(cs) == IF cs = <<>> THEN <<>> ELSE CallBytes(Head(cs)) \o CallsBytes(Tail(cs))

\* C12: the contents written are, byte by byte, \b \t \n \f \r for 0x08 0x09
\* 0x0A 0x0C 0x0D, \" and \\ for the quote and the backslash, \u00XX with
\* lower-case digits for every other byte below 0x20 and the byte itself
\* otherwise; every run handed to write_string_fragment is non-empty and holds
\* no byte that needs escaping; unreachable!() is never executed.
C12_EscapedContents ==
    /\ ser.state # "panic"
    /\ ser.state = "done" =>
          /\ writer = <<34>> \o EscapedBody(gen.s) \o <<34>>
          /\ writer = CallsBytes(calls)
          /\ \A k \in 1 .. Len(calls) :
                /\ calls[k].fn = "write_string_fragment" =>
                      /\ calls[k].arg # <<>>
                      /\ \A j \in 1 .. Len(calls[k].arg) :
                            /\ calls[k].arg[j] >= 32
                            /\ calls[k].arg[j] \notin {34, 92}
                /\ calls[k].fn = "write_char_escape" =>
                      calls[k].arg.tag \notin {"unreachable", "Solidus"}
                /\ (k > 1 /\ calls[k].fn = "write_string_fragment") =>
                      calls[k - 1].fn # "write_string_fragment"

C12_Witness ==
    /\ ser.state = "done"
    /\ gen.s = <<97, 31, 97>>
    /\ writer = <<34, 97, 92, 117, 48, 48, 49, 102, 97, 34>>
    /\ Len(calls) = 5

----------------------------------------------------------------------------
(* ser.rs: the value and container methods of Formatter, as the trait      *)
(* provides them (CompactFormatter) and as PrettyFormatter overrides them. *)

Formatter_write_null(e) == write_all(Called(e, "write_null", <<>>), <<110, 117, 108, 108>>)

Formatter_begin_array(e) == write_all(Called(e, "begin_array", <<>>), <<91>>)

Formatter_end_array(e) == write_all(Called(e, "end_array", <<>>), <<93>>)

Formatter_begin_array_value(e, first) ==
    write_all(Called(e, "begin_array_value", first), IF first THEN <<>> ELSE <<44>>)

Formatter_end_array_value(e) == Called(e, "end_array_value", <<>>)

Formatter_begin_object(e) == write_all(Called(e, "begin_object", <<>>), <<123>>)

Formatter_end_object(e) == write_all(Called(e, "end_object", <<>>), <<125>>)

Formatter_begin_object_key(e, first) ==
    write_all(Called(e, "begin_object_key", first), IF first THEN <<>> ELSE <<44>>)

Formatter_end_object_key(e) == Called(e, "end_object_key", <<>>)

Formatter_begin_object_value(e) == write_all(Called(e, "begin_object_value", <<>>), <<58>>)

Formatter_end_object_value(e) == Called(e, "end_object_value", <<>>)

\* PrettyFormatter::with_indent
PrettyFormatter_with_indent(indent) ==
    [kind |-> "pretty", current_indent |-> 0, has_value |-> FALSE, indent |-> indent]

\* PrettyFormatter::new
PrettyFormatter_new == PrettyFormatter_with_indent(<<32, 32>>)

\* an indentation of one level whatever n is
indent_flat(e, n, s) == IF n <= 0 THEN e ELSE write_all(e, s)

\* fn indent(wr, n, s)
RECURSIVE indent(_, _, _)
indent(e, n, s) == IF n <= 0 THEN e ELSE indent(write_all(e, s), n - 1, s)

\* self.current_indent += 1; self.has_value = false
Indented(e) ==
    [e EXCEPT !.formatter.current_indent = @ + 1, !.formatter.has_value = FALSE]

\* self.current_indent -= 1; below zero the subtraction overflows, and the
\* call panics or sets off an indentation that does not end
Dedented(e) ==
    IF e.formatter.current_indent = 0 THEN Panic(e)
    ELSE [e EXCEPT !.formatter.current_indent = @ - 1]

\* self.has_value = true
WithValue(e) == [e EXCEPT !.formatter.has_value = TRUE]

\* a closer that looks at no flag
PrettyFormatter_close_always(e, closer) ==
    write_all(indent(write_all(e, <<10>>), e.formatter.current_indent,
                     e.formatter.indent), closer)

\* if self.has_value { "\n", indent }, then the closer
PrettyFormatter_close(e, closer) ==
    IF e.formatter.has_value
    THEN write_all(indent(write_all(e, <<10>>), e.formatter.current_indent,
                          e.formatter.indent), closer)
    ELSE write_all(e, closer)

\* "\n" or ",\n", then the indentation
PrettyFormatter_begin_value(e, first) ==
    indent(write_all(e, IF first THEN <<10>> ELSE <<44, 10>>),
           e.formatter.current_indent, e.formatter.indent)

PrettyFormatter_begin_array(e) ==
    write_all(Indented(Called(e, "begin_array", <<>>)), <<91>>)

\* history: the flag and the indentation a closer finds, and where it writes
Closing(e) ==
    [has_value |-> e.formatter.has_value, indent |-> e.formatter.current_indent,
     at |-> Len(e.writer)]

PrettyFormatter_end_array(e) ==
    PrettyFormatter_close(Dedented(Called(e, "end_array", Closing(e))), <<93>>)

PrettyFormatter_begin_array_value(e, first) ==
    PrettyFormatter_begin_value(Called(e, "begin_array_value", first), first)

PrettyFormatter_end_array_value(e) == WithValue(Called(e, "end_array_value", <<>>))

PrettyFormatter_begin_object(e) ==
    write_all(Indented(Called(e, "begin_object", <<>>)), <<123>>)

PrettyFormatter_end_object(e) ==
    PrettyFormatter_close(Dedented(Called(e, "end_object", Closing(e))), <<125>>)

PrettyFormatter_begin_object_key(e, first) ==
    PrettyFormatter_begin_value(Called(e, "begin_object_key", first), first)

PrettyFormatter_begin_object_value(e) ==
    write_all(Called(e, "begin_object_value", <<>>), <<58, 32>>)

PrettyFormatter_end_object_value(e) == WithValue(Called(e, "end_object_value", <<>>))

\* self.formatter.method(&mut self.writer, ..) for the formatter at hand
IsPretty(e) == e.formatter.kind = "pretty"

begin_array(e) ==
    IF IsPretty(e) THEN PrettyFormatter_begin_array(e) ELSE Formatter_begin_array(e)

end_array(e) ==
    IF IsPretty(e) THEN PrettyFormatter_end_array(e) ELSE Formatter_end_array(e)

begin_array_value(e, first) ==
    IF IsPretty(e) THEN PrettyFormatter_begin_array_value(e, first)
    ELSE Formatter_begin_array_value(e, first)

end_array_value(e) ==
    IF IsPretty(e) THEN PrettyFormatter_end_array_value(e)
    ELSE Formatter_end_array_value(e)

begin_object(e) ==
    IF IsPretty(e) THEN PrettyFormatter_begin_object(e) ELSE Formatter_begin_object(e)

end_object(e) ==
    IF IsPretty(e) THEN PrettyFormatter_end_object(e) ELSE Formatter_end_object(e)

begin_object_key(e, first) ==
    IF IsPretty(e) THEN PrettyFormatter_begin_object_key(e, first)
    ELSE Formatter_begin_object_key(e, first)

end_object_key(e) == Formatter_end_object_key(e)

begin_object_value(e) ==
    IF IsPretty(e) THEN PrettyFormatter_begin_object_value(e)
    ELSE Formatter_begin_object_value(e)

end_object_value(e) ==
    IF IsPretty(e) THEN PrettyFormatter_end_object_value(e)
    ELSE Formatter_end_object_value(e)

----------------------------------------------------------------------------
(* ser.rs: Serializer, MapKeySerializer and Compound.  A value is written  *)
(* by the calls its Serialize impl makes; each call is one action, and the *)
(* open containers are the Compound values the caller holds, innermost     *)
(* last.                                                                   *)

MaxDepth == 2

MaxNodes == 4

MaxHint == 2

\* itoa::Buffer::format: the decimal digits of value, '-' first if negative
RECURSIVE Digits(_)
Digits(n) == IF n < 10 THEN <<48 + n>> ELSE Append(Digits(n \div 10), 48 + (n % 10))

itoa_format(value) == IF value < 0 THEN <<45>> \o Digits(0 - value) ELSE Digits(value)

\* write_i8 .. write_u128
Formatter_write_int(e, kind, value) ==
    write_all(Called(e, "write_" \o kind, value), itoa_format(value))

\* Result<()> of a call on the serializer e
SerOk(e) == [e |-> e, err |-> NoError]

SerErr(e, err) == [e |-> e, err |-> err]

key_must_be_a_string == Error_syntax("KeyMustBeAString", 0, 0)

Serializer_serialize_str(e, value) == SerOk(format_escaped_str(e, value))

Serializer_serialize_unit(e) == SerOk(Formatter_write_null(e))

\* Adapter::write_str for each piece the Display impl writes
RECURSIVE Adapter_write(_, _)
Adapter_write(e, pieces) ==
    IF pieces = <<>> THEN e
    ELSE Adapter_write(format_escaped_str_contents(e, Head(pieces)), Tail(pieces))

\* the Display impl reports an error the adapter has not seen: expect() panics
Serializer_collect_str_on(e, fails) ==
    IF fails THEN SerOk(Panic(e)) ELSE SerOk(Formatter_end_string(e))

Serializer_collect_str(e, pieces, fails) ==
    Serializer_collect_str_on(Adapter_write(Formatter_begin_string(e), pieces), fails)

IntKinds == {"i8", "i16", "i32", "i64", "i128", "u8", "u16", "u32", "u64", "u128"}

MapKeySerializer_serialize_int(e, kind, value) ==
    SerOk(Formatter_end_string(Formatter_write_int(Formatter_begin_string(e), kind, value)))

\* a map key: kind is the Serializer method its Serialize impl calls, under
\* wraps newtype structs; s, n and b are the str, the integer or char and
\* the bool it passes; a collect_str key has a Display impl that writes s
\* in two pieces, cut after n bytes, and returns Err if b
Key(kind, s, n, b) == [kind |-> kind, s |-> s, n |-> n, b |-> b, wraps |-> 0]

Newtype(key) == [key EXCEPT !.wraps = @ + 1]

Unwrapped(key) == [key EXCEPT !.wraps = @ - 1]

Pieces(key) == <<SubSeq(key.s, 1, key.n), SubSeq(key.s, key.n + 1, Len(key.s))>>

\* a key serializer that writes a bool as the serializer does
RECURSIVE MapKeySerializer_serialize_bool_ok(_, _)
MapKeySerializer_serialize_bool_ok(e, key) ==
    IF key.wraps > 0 THEN MapKeySerializer_serialize_bool_ok(e, Unwrapped(key))
    ELSE CASE key.kind = "str" -> Serializer_serialize_str(e, key.s)
           [] key.kind = "unit_variant" -> Serializer_serialize_str(e, key.s)
           [] key.kind \in IntKinds -> MapKeySerializer_serialize_int(e, key.kind, key.n)
           [] key.kind = "char" -> Serializer_serialize_str(e, encode_utf8(key.n))
           [] key.kind = "collect_str" -> Serializer_collect_str(e, Pieces(key), key.b)
           [] key.kind = "bool" ->
                 SerOk(write_all(Called(e, "write_bool", key.b),
                                 IF key.b THEN <<116, 114, 117, 101>>
                                 ELSE <<102, 97, 108, 115, 101>>))
           [] OTHER -> SerErr(e, key_must_be_a_string)

\* key.serialize(MapKeySerializer { ser }): the method the key's kind calls
RECURSIVE MapKeySerializer_serialize(_, _)
MapKeySerializer_serialize(e, key) ==
    IF key.wraps > 0 THEN MapKeySerializer_serialize(e, Unwrapped(key))
    ELSE CASE key.kind = "str" -> Serializer_serialize_str(e, key.s)
           [] key.kind = "unit_variant" -> Serializer_serialize_str(e, key.s)
           [] key.kind \in IntKinds -> MapKeySerializer_serialize_int(e, key.kind, key.n)
           [] key.kind = "char" -> Serializer_serialize_str(e, encode_utf8(key.n))
           [] key.kind = "collect_str" -> Serializer_collect_str(e, Pieces(key), key.b)
           [] OTHER -> SerErr(e, key_must_be_a_string)

\* Compound::Map { ser, state }, with what the caller has done with it:
\* hint is the len it was opened with, n the elements or keys begun, firsts
\* the flags passed to begin_array_value / begin_object_key, start the index
\* of its opener in the writer, pos where the caller is within an element,
\* nested whether every container ended inside it had a true length hint
Compound(type, state, hint, start) ==
    [type |-> type, state |-> state, hint |-> hint, n |-> 0, firsts |-> <<>>,
     pos |-> "open", start |-> start, nested |-> TRUE]

\* the length hint of the container c told the truth
HonestHint(c) == c.hint = None \/ c.hint = c.n

\* the container c has ended inside the innermost container of stack
Nest(stack, c) ==
    IF stack = <<>> THEN stack
    ELSE [stack EXCEPT ![Len(stack)].nested = @ /\ HonestHint(c) /\ c.nested]

NoCompound == [type |-> "none"]

\* the serializer between two calls: stack holds the open Compounds, ended
\* the last one whose end() returned, nodes counts the values begun
SerState(state, err, stack, ended, nodes) ==
    [state |-> state, err |-> err, stack |-> stack, ended |-> ended, nodes |-> nodes]

Top(stack) == stack[Len(stack)]

Pop(stack) == SubSeq(stack, 1, Len(stack) - 1)

\* the element is counted, the state left as it was
Begun_keep_state(stack) ==
    [stack EXCEPT ![Len(stack)] =
        [@ EXCEPT !.firsts = Append(@, Top(stack).state = "First"), !.n = @ + 1]]

\* *state = State::Rest, after the flag state == State::First was passed on
Begun(stack) ==
    [stack EXCEPT ![Len(stack)] =
        [@ EXCEPT !.firsts = Append(@, Top(stack).state = "First"),
                  !.state = "Rest", !.n = @ + 1]]

At(stack, pos) == [stack EXCEPT ![Len(stack)].pos = pos]

\* the call returns, or never does
Settle(e, s) ==
    /\ Emit(e, IF e.panic THEN [s EXCEPT !.state = "panic"] ELSE s)
    /\ UNCHANGED <<read_vars, val_vars>>

\* the caller is about to serialize a value
ExpectsValue ==
    \/ ser.state = "new"
    \/ ser.state = "open" /\ Top(ser.stack).pos \in {"in_element", "in_value"}

\* a value has been written: what the enclosing serialize_element or
\* serialize_value does after value.serialize returns
ValueDone(e, stack, ended, nodes) ==
    IF stack = <<>> THEN Settle(e, SerState("done", NoError, stack, ended, nodes))
    ELSE IF Top(stack).type = "seq"
    THEN Settle(end_array_value(e), SerState("open", NoError, At(stack, "open"), ended, nodes))
    ELSE Settle(end_object_value(e), SerState("open", NoError, At(stack, "open"), ended, nodes))

serialize_unit ==
    /\ ExpectsValue
    /\ ser.nodes < MaxNodes
    /\ ValueDone(Formatter_write_null(Self), ser.stack, ser.ended, ser.nodes + 1)

\* Serializer::serialize_seq / serialize_map after the opener
serialize_compound_on(e, type, len) ==
    Settle(IF len # 0 THEN e ELSE IF type = "seq" THEN end_array(e) ELSE end_object(e),
           SerState("open", NoError,
                    Append(ser.stack,
                           Compound(type, IF len = 0 THEN "Empty" ELSE "First", len,
                                    Len(writer) + 1)),
                    ser.ended, ser.nodes + 1))

Hints == {None} \cup (0 .. MaxHint)

serialize_seq ==
    /\ ExpectsValue
    /\ ser.nodes < MaxNodes
    /\ Len(ser.stack) < MaxDepth
    /\ \E len \in Hints : serialize_compound_on(begin_array(Self), "seq", len)

serialize_map ==
    /\ ExpectsValue
    /\ ser.nodes < MaxNodes
    /\ Len(ser.stack) < MaxDepth
    /\ \E len \in Hints : serialize_compound_on(begin_object(Self), "map", len)

InCompound(type, pos) ==
    /\ ser.state = "open"
    /\ Top(ser.stack).type = type
    /\ Top(ser.stack).pos = pos

\* SerializeSeq::serialize_element up to value.serialize
serialize_element ==
    /\ InCompound("seq", "open")
    /\ ser.nodes < MaxNodes
    /\ Settle(begin_array_value(Self, Top(ser.stack).state = "First"),
              SerState("open", NoError, At(Begun(ser.stack), "in_element"),
                       ser.ended, ser.nodes))

\* SerializeMap::serialize_key after key.serialize
serialize_key_on(k, stack) ==
    IF k.err = NoError
    THEN Settle(end_object_key(k.e),
                SerState("open", NoError, At(stack, "key_done"), ser.ended, ser.nodes))
    ELSE Settle(k.e, SerState("error", k.err, stack, ser.ended, ser.nodes))

\* history: key.serialize is called with the writer as e holds it
KeyBegun(e, key) == Called(e, "key.serialize", [key |-> key, at |-> Len(e.writer)])

serialize_key ==
    /\ InCompound("map", "open")
    /\ ser.nodes < MaxNodes
    /\ \E key \in gen.keys :
          serialize_key_on(
              MapKeySerializer_serialize(
                  KeyBegun(begin_object_key(Self, Top(ser.stack).state = "First"), key),
                  key),
              Begun(ser.stack))

\* SerializeMap::serialize_value up to value.serialize
serialize_value ==
    /\ InCompound("map", "key_done")
    /\ Settle(begin_object_value(Self),
              SerState("open", NoError, At(ser.stack, "in_value"), ser.ended, ser.nodes))

\* the Compound as end() leaves it, with the bytes from its opener on
Ended(e, c) ==
    [type |-> c.type, hint |-> c.hint, n |-> c.n, firsts |-> c.firsts,
     nested |-> c.nested, text |-> SubSeq(e.writer, c.start, Len(e.writer))]

\* an end() that writes the closer whatever the state is
end_always ==
    /\ ser.state = "open"
    /\ Top(ser.stack).pos = "open"
    /\ ValueDone(IF Top(ser.stack).type = "seq" THEN end_array(Self) ELSE end_object(Self),
                 Nest(Pop(ser.stack), Top(ser.stack)),
                 Ended(IF Top(ser.stack).type = "seq" THEN end_array(Self)
                       ELSE end_object(Self),
                       Top(ser.stack)),
                 ser.nodes)

\* SerializeSeq::end / SerializeMap::end, then the caller's next step
end_on(e, c) == ValueDone(e, Nest(Pop(ser.stack), c), Ended(e, c), ser.nodes)

end ==
    /\ ser.state = "open"
    /\ Top(ser.stack).pos = "open"
    /\ end_on(IF Top(ser.stack).state = "Empty" THEN Self
              ELSE IF Top(ser.stack).type = "seq" THEN end_array(Self)
              ELSE end_object(Self),
              Top(ser.stack))

\* a serializer over an empty writer, about to write a value whose map keys
\* are among keys
SerInit(f, keys) ==
    /\ ReadInit("slice", <<>>, [keys |-> keys])
    /\ writer = <<>>
    /\ formatter = f
    /\ calls = <<>>
    /\ ser = SerState("new", NoError, <<>>, NoCompound, 0)
    /\ ValIdle

Str(s) == Key("str", s, 0, FALSE)

\* "a" and ","
ContainerKeys == {Str(<<97>>), Str(<<44>>)}

ContainerInit == \E f \in {CompactFormatter, PrettyFormatter_new} : SerInit(f, ContainerKeys)

ContainerNext ==
    \/ serialize_unit
    \/ serialize_seq
    \/ serialize_map
    \/ serialize_element
    \/ serialize_key
    \/ serialize_value
    \/ end

ContainerSpec == ContainerInit /\ [][ContainerNext]_vars

----------------------------------------------------------------------------
(* Properties of the container calls.                                      *)

\* the number of commas of text[i..] that lie outside string literals and
\* directly inside the outermost brackets; depth counts the brackets open
\* before i, in_str and esc tell whether i is inside a string literal and
\* directly after a backslash in it
RECURSIVE CommasAtLevel(_, _, _, _, _)
CommasAtLevel(text, i, depth, in_str, esc) ==
    IF i > Len(text) THEN 0
    ELSE IF in_str
    THEN CommasAtLevel(text, i + 1, depth,
                       esc \/ text[i] # 34, ~esc /\ text[i] = 92)
    ELSE IF text[i] = 34 THEN CommasAtLevel(text, i + 1, depth, TRUE, FALSE)
    ELSE IF text[i] \in {91, 123} THEN CommasAtLevel(text, i + 1, depth + 1, FALSE, FALSE)
    ELSE IF text[i] \in {93, 125} THEN CommasAtLevel(text, i + 1, depth - 1, FALSE, FALSE)
    ELSE (IF text[i] = 44 /\ depth = 1 THEN 1 ELSE 0)
         + CommasAtLevel(text, i + 1, depth, FALSE, FALSE)

Opener(type) == IF type = "seq" THEN 91 ELSE 123

Closer(type) == IF type = "seq" THEN 93 ELSE 125

\* the compact text of the ended container: n - 1 commas at its own level,
\* none directly after the opener, none directly before the closer, and the
\* opener followed by the closer when n = 0
CompactCommas ==
    /\ Len(ser.ended.text) >= 2
    /\ ser.ended.text[1] = Opener(ser.ended.type)
    /\ ser.ended.text[Len(ser.ended.text)] = Closer(ser.ended.type)
    /\ ser.ended.text[2] # 44
    /\ ser.ended.text[Len(ser.ended.text) - 1] # 44
    /\ ser.ended.n = 0 => Len(ser.ended.text) = 2
    /\ ser.ended.n >= 1 =>
          CommasAtLevel(ser.ended.text, 1, 0, FALSE, FALSE) = ser.ended.n - 1

\* the ended container passed first = true for its first element and first =
\* false for every later one
FirstFlags ==
    /\ Len(ser.ended.firsts) = ser.ended.n
    /\ \A k \in 1 .. ser.ended.n : ser.ended.firsts[k] = (k = 1)

\* C13: a container whose length hint is None or the number of elements
\* serialized has passed first = true for its first element and first =
\* false for every later one; if the same holds of the hint of every
\* container ended inside it, its compact text has n - 1 commas at its own
\* level, none directly after the opener, none directly before the closer,
\* and is the opener followed by the closer when n = 0.
C13_FirstFlagAndCommas ==
    (ser.ended.type # "none" /\ HonestHint(ser.ended)) =>
        /\ FirstFlags
        /\ (formatter.kind = "compact" /\ ser.ended.nested) => CompactCommas

\* C13 as stated: the commas of the compact text follow from the hint of the
\* container alone.
C13_AsStated ==
    (ser.ended.type # "none" /\ HonestHint(ser.ended)) =>
        /\ FirstFlags
        /\ formatter.kind = "compact" => CompactCommas

\* a compact map of two entries has ended, one of its keys holding a comma
C13_Witness ==
    /\ ser.ended.type = "map"
    /\ formatter.kind = "compact"
    /\ HonestHint(ser.ended)
    /\ ser.ended.nested
    /\ ser.ended.n = 2
    /\ Cardinality({k \in 1 .. Len(ser.ended.text) : ser.ended.text[k] = 44}) > 1

\* n copies of the indentation s
RECURSIVE Indentation(_, _)
Indentation(n, s) == IF n = 0 THEN <<>> ELSE s \o Indentation(n - 1, s)

\* the bytes of w from index at + 1 on are exactly bytes, or begin with them
WrittenAt(w, at, bytes) ==
    /\ Len(w) >= at + Len(bytes)
    /\ SubSeq(w, at + 1, at + Len(bytes)) = bytes

\* the closer event c finds open, the innermost container of the events so
\* far, at nesting depth depth: its flag tells whether a value was written
\* in open, and it writes the closer alone, right after the opener, or a
\* newline, the indentation of the enclosing level and the closer
CloserAsClaimed(c, open, depth) ==
    /\ c.arg.has_value = (open.values > 0)
    /\ c.arg.indent = depth
    /\ IF open.values = 0
       THEN /\ writer[c.arg.at] = Opener(open.type)
            /\ WrittenAt(writer, c.arg.at, <<Closer(open.type)>>)
       ELSE WrittenAt(writer, c.arg.at,
                      <<10>> \o Indentation(depth - 1, formatter.indent)
                           \o <<Closer(open.type)>>)

\* an open container of the formatter events: the values written in it and
\* where the events stand within an element of it
Open(type) == [type |-> type, values |-> 0, phase |-> "open"]

TypeOf(fn) == IF fn \in {"begin_array", "end_array", "begin_array_value", "end_array_value"}
              THEN "seq" ELSE "map"

\* the innermost open container is of the type of the event fn and in phase
Innermost(opens, fn, phase) ==
    /\ opens # <<>>
    /\ Top(opens).type = TypeOf(fn)
    /\ Top(opens).phase = phase

\* a value may begin here
ValuePlace(opens) == opens = <<>> \/ Top(opens).phase = "value"

Phase(opens, phase) ==
    IF opens = <<>> THEN opens ELSE [opens EXCEPT ![Len(opens)].phase = phase]

Valued(opens) ==
    [opens EXCEPT ![Len(opens)].phase = "open", ![Len(opens)].values = @ + 1]

\* the formatter events from the k-th on, opens being the containers the
\* events before it have left open: every closer is as claimed, up to the
\* first event that is not well nested
RECURSIVE ClosersFrom(_, _)
ClosersFrom(k, opens) ==
    IF k > Len(calls) THEN TRUE
    ELSE IF calls[k].fn \in {"begin_array", "begin_object"}
    THEN ValuePlace(opens) => ClosersFrom(k + 1, Append(opens, Open(TypeOf(calls[k].fn))))
    ELSE IF calls[k].fn = "write_null"
    THEN ValuePlace(opens) => ClosersFrom(k + 1, Phase(opens, "valued"))
    ELSE IF calls[k].fn = "begin_array_value"
    THEN Innermost(opens, calls[k].fn, "open") => ClosersFrom(k + 1, Phase(opens, "value"))
    ELSE IF calls[k].fn = "begin_object_key"
    THEN Innermost(opens, calls[k].fn, "open") => ClosersFrom(k + 1, Phase(opens, "key"))
    ELSE IF calls[k].fn = "end_object_key"
    THEN Innermost(opens, calls[k].fn, "key") => ClosersFrom(k + 1, Phase(opens, "keyed"))
    ELSE IF calls[k].fn = "begin_object_value"
    THEN Innermost(opens, calls[k].fn, "keyed") => ClosersFrom(k + 1, Phase(opens, "value"))
    ELSE IF calls[k].fn \in {"end_array_value", "end_object_value"}
    THEN Innermost(opens, calls[k].fn, "valued") => ClosersFrom(k + 1, Valued(opens))
    ELSE IF calls[k].fn \in {"end_array", "end_object"}
    THEN Innermost(opens, calls[k].fn, "open") =>
            /\ CloserAsClaimed(calls[k], Top(opens), Len(opens))
            /\ ClosersFrom(k + 1, Phase(Pop(opens), "valued"))
    ELSE ClosersFrom(k + 1, opens)

\* every formatter event so far is well nested
RECURSIVE WellNestedFrom(_, _)
WellNestedFrom(k, opens) ==
    IF k > Len(calls) THEN TRUE
    ELSE IF calls[k].fn \in {"begin_array", "begin_object"}
    THEN ValuePlace(opens) /\ WellNestedFrom(k + 1, Append(opens, Open(TypeOf(calls[k].fn))))
    ELSE IF calls[k].fn = "write_null"
    THEN ValuePlace(opens) /\ WellNestedFrom(k + 1, Phase(opens, "valued"))
    ELSE IF calls[k].fn = "begin_array_value"
    THEN Innermost(opens, calls[k].fn, "open") /\ WellNestedFrom(k + 1, Phase(opens, "value"))
    ELSE IF calls[k].fn = "begin_object_key"
    THEN Innermost(opens, calls[k].fn, "open") /\ WellNestedFrom(k + 1, Phase(opens, "key"))
    ELSE IF calls[k].fn = "end_object_key"
    THEN Innermost(opens, calls[k].fn, "key") /\ WellNestedFrom(k + 1, Phase(opens, "keyed"))
    ELSE IF calls[k].fn = "begin_object_value"
    THEN Innermost(opens, calls[k].fn, "keyed") /\ WellNestedFrom(k + 1, Phase(opens, "value"))
    ELSE IF calls[k].fn \in {"end_array_value", "end_object_value"}
    THEN Innermost(opens, calls[k].fn, "valued") /\ WellNestedFrom(k + 1, Valued(opens))
    ELSE IF calls[k].fn \in {"end_array", "end_object"}
    THEN Innermost(opens, calls[k].fn, "open")
         /\ WellNestedFrom(k + 1, Phase(Pop(opens), "valued"))
    ELSE WellNestedFrom(k + 1, opens)

\* C14: with PrettyFormatter, in every well-nested sequence of formatter
\* events, end_array / end_object finds has_value set if and only if a value
\* was written in the container it closes, writes a newline and the
\* indentation before the closer exactly then, and writes the closer right
\* after the opener otherwise.
C14_PrettyCloser == formatter.kind = "pretty" => ClosersFrom(1, <<>>)

\* [[]] has been written as "[", newline, two spaces, "[]", newline, "]"
C14_Witness ==
    /\ formatter.kind = "pretty"
    /\ ser.state = "done"
    /\ WellNestedFrom(1, <<>>)
    /\ writer = <<91, 10, 32, 32, 91, 93, 10, 93>>

----------------------------------------------------------------------------
(* Map keys of every kind of the serde data model.                         *)

IntKey(kind, n) == Key(kind, <<>>, n, FALSE)

Char(c) == Key("char", <<>>, c, FALSE)

Displayed(s, cut, fails) == Key("collect_str", s, cut, fails)

\* kinds MapKeySerializer has a method for that writes a string
AcceptedKeys ==
    {Str(<<97>>), Str(<<>>), Str(<<34, 10, 92>>), Str(<<195, 169>>),
     Key("unit_variant", <<65>>, 0, FALSE),
     Char(97), Char(34), Char(233), Char(128512),
     Displayed(<<>>, 0, FALSE), Displayed(<<97, 34, 98>>, 1, FALSE)}
    \cup {IntKey("i8", n) : n \in {-128, 0, 127}}
    \cup {IntKey("u8", n) : n \in {0, 255}}
    \cup {IntKey("i16", n) : n \in {-32768, 7}}
    \cup {IntKey("u16", n) : n \in {65535}}
    \cup {IntKey("i32", n) : n \in {-2147483647, 10}}
    \cup {IntKey(kind, n) : kind \in {"u32", "i64", "u64", "i128", "u128"}, n \in {0, 1000000}}
    \cup {IntKey("i64", -42), IntKey("i128", -9)}

\* kinds MapKeySerializer answers with key_must_be_a_string
RejectedKinds ==
    {"f32", "f64", "bytes", "unit", "unit_struct", "none", "some",
     "newtype_variant", "seq", "tuple", "tuple_struct", "tuple_variant", "map",
     "struct", "struct_variant"}

RejectedKeys ==
    {Key(kind, <<>>, 0, FALSE) : kind \in RejectedKinds}
    \cup {Key("bool", <<>>, 0, b) : b \in BOOLEAN}

\* newtype structs around keys of the other kinds
NewtypeKeys ==
    {Newtype(Str(<<97>>)), Newtype(IntKey("u8", 255)), Newtype(Newtype(Char(34))),
     Newtype(Key("bool", <<>>, 0, TRUE)), Newtype(Key("seq", <<>>, 0, FALSE)),
     Newtype(Newtype(Key("unit", <<>>, 0, FALSE)))}

\* a Display impl that returns Err though the writer took every byte
FailingKeys == {Displayed(<<97>>, 1, TRUE)}

AllKeys == AcceptedKeys \cup RejectedKeys \cup NewtypeKeys \cup FailingKeys

\* maps whose keys are all the same key
KeyInit ==
    \E f \in {CompactFormatter, PrettyFormatter_new}, key \in AllKeys : SerInit(f, {key})

KeyNext ==
    \/ serialize_unit
    \/ serialize_map
    \/ serialize_key
    \/ serialize_value
    \/ end

KeySpec == KeyInit /\ [][KeyNext]_vars

----------------------------------------------------------------------------
(* Properties of map keys.                                                 *)

\* serialize_key has just returned, or has not
KeyDone ==
    /\ ser.state \in {"open", "error", "panic"}
    /\ ser.stack # <<>>
    /\ ser.state = "error" \/ Top(ser.stack).pos = "key_done"

\* the last call of key.serialize
LastKeyAt ==
    CHOOSE k \in 1 .. Len(calls) :
        /\ calls[k].fn = "key.serialize"
        /\ \A j \in (k + 1) .. Len(calls) : calls[j].fn # "key.serialize"

\* the key inside its newtype structs
RECURSIVE Kernel(_)
Kernel(key) == IF key.wraps = 0 THEN key ELSE Kernel(Unwrapped(key))

\* the kinds the claim lists as accepted
AcceptedKinds == {"str", "collect_str", "unit_variant", "char"} \cup IntKinds

\* the decimal digits of the integers used as keys, written out
DecimalOf(n) ==
    CASE n = 0 -> <<48>>
      [] n = 7 -> <<55>>
      [] n = 10 -> <<49, 48>>
      [] n = 127 -> <<49, 50, 55>>
      [] n = 255 -> <<50, 53, 53>>
      [] n = 65535 -> <<54, 53, 53, 51, 53>>
      [] n = 1000000 -> <<49, 48, 48, 48, 48, 48, 48>>
      [] n = -9 -> <<45, 57>>
      [] n = -42 -> <<45, 52, 50>>
      [] n = -128 -> <<45, 49, 50, 56>>
      [] n = -32768 -> <<45, 51, 50, 55, 54, 56>>
      [] n = -2147483647 -> <<45, 50, 49, 52, 55, 52, 56, 51, 54, 52, 55>>

\* the string an accepted key stands for
KeyText(key) ==
    CASE key.kind \in {"str", "unit_variant", "collect_str"} -> key.s
      [] key.kind = "char" -> Utf8Of(key.n)
      [] key.kind \in IntKinds -> DecimalOf(key.n)

\* s[i..] is the rest of the body of a string literal and its closing quote:
\* no control byte, no quote but the last, each backslash with its escape
RECURSIVE LiteralRest(_, _)
LiteralRest(s, i) ==
    IF i > Len(s) THEN FALSE
    ELSE IF s[i] = 34 THEN i = Len(s)
    ELSE IF s[i] < 32 THEN FALSE
    ELSE IF s[i] # 92 THEN LiteralRest(s, i + 1)
    ELSE IF i + 1 > Len(s) THEN FALSE
    ELSE IF s[i + 1] \in {34, 92, 47, 98, 102, 110, 114, 116} THEN LiteralRest(s, i + 2)
    ELSE /\ s[i + 1] = 117
         /\ i + 5 <= Len(s)
         /\ \A j \in (i + 2) .. (i + 5) : s[j] \in (48 .. 57) \cup (65 .. 70) \cup (97 .. 102)
         /\ LiteralRest(s, i + 6)

IsStringLiteral(s) == Len(s) >= 2 /\ s[1] = 34 /\ LiteralRest(s, 2)

\* what the last key.serialize has written
KeyBytes == SubSeq(writer, calls[LastKeyAt].arg.at + 1, Len(writer))

\* the Display impl of the key breaks its contract
FailingDisplay(key) == key.kind = "collect_str" /\ key.b

\* C15: what is written between begin_object_key and end_object_key is a
\* JSON string literal: a key that is, under any newtype structs, a str, a
\* collect_str, a unit variant, a char or an integer is written as the
\* quoted, escaped text of its value; a key of any other kind fails with
\* KeyMustBeAString at line 0 column 0, and nothing is written and no
\* formatter method called after begin_object_key.
C15_MapKeyIsString ==
    (KeyDone /\ ~FailingDisplay(Kernel(calls[LastKeyAt].arg.key))) =>
        /\ calls[LastKeyAt - 1].fn = "begin_object_key"
        /\ IF Kernel(calls[LastKeyAt].arg.key).kind \in AcceptedKinds
           THEN /\ ser.state = "open"
                /\ calls[Len(calls)].fn = "end_object_key"
                /\ IsStringLiteral(KeyBytes)
                /\ KeyBytes = <<34>> \o EscapedBody(KeyText(Kernel(calls[LastKeyAt].arg.key)))
                                   \o <<34>>
           ELSE /\ ser.state = "error"
                /\ ser.err = [code |-> "KeyMustBeAString", line |-> 0, column |-> 0]
                /\ KeyBytes = <<>>
                /\ LastKeyAt = Len(calls)

\* a bool inside a newtype struct has been refused as the key of a pretty
\* map, after the newline and the indentation
C15_Witness ==
    /\ KeyDone
    /\ ser.state = "error"
    /\ calls[LastKeyAt].arg.key.wraps = 1
    /\ calls[LastKeyAt].arg.key.kind = "bool"
    /\ writer = <<123, 10, 32, 32>>

----------------------------------------------------------------------------
(* map.rs: Map<String, Value> over BTreeMap, a sequence of entries kept in *)
(* the order of String's Ord.                                              *)

MaxInserts == 3

\* <String as Ord>::lt: the bytes compared one by one, a prefix first
RECURSIVE String_lt(_, _)
String_lt(a, b) ==
    IF b = <<>> THEN FALSE
    ELSE IF a = <<>> THEN TRUE
    ELSE IF Head(a) # Head(b) THEN Head(a) < Head(b)
    ELSE String_lt(Tail(a), Tail(b))

Entry(k, v) == [k |-> k, v |-> v]

\* the index of the first entry of map from i on whose key is not below k
RECURSIVE BTreeMap_search(_, _, _)
BTreeMap_search(map, k, i) ==
    IF i > Len(map) \/ ~String_lt(map[i].k, k) THEN i ELSE BTreeMap_search(map, k, i + 1)

\* a Value: its variant, the number of a Number, the entries of an Object
\* (in key order) or the elements of an Array (under empty keys)
Value(type, n, items) == [type |-> type, n |-> n, items |-> items]

NoValue == Value("none", 0, <<>>)

\* BTreeMap::insert at the place i the search has found
BTreeMap_insert_at(map, k, v, i) ==
    IF i <= Len(map) /\ map[i].k = k
    THEN [map |-> [map EXCEPT ![i].v = v], old |-> map[i].v]
    ELSE [map |-> SubSeq(map, 1, i - 1) \o <<Entry(k, v)>> \o SubSeq(map, i, Len(map)),
          old |-> NoValue]

\* a map that keeps new keys in the order of insertion
BTreeMap_insert_last(map, k, v) ==
    IF \E i \in 1 .. Len(map) : map[i].k = k
    THEN BTreeMap_insert_at(map, k, v, CHOOSE i \in 1 .. Len(map) : map[i].k = k)
    ELSE [map |-> Append(map, Entry(k, v)), old |-> NoValue]

BTreeMap_insert(map, k, v) == BTreeMap_insert_at(map, k, v, BTreeMap_search(map, k, 1))

\* Map::insert
Map_insert(map, k, v) == BTreeMap_insert(map, k, v)

\* Map::len
Map_len(map) == Len(map)

Null == Value("Null", 0, <<>>)

Number(n) == Value("Number", n, <<>>)

\* Serializer::serialize_u64
Serializer_serialize_u64(e, value) == SerOk(Formatter_write_int(e, "u64", value))

\* Value::serialize: Null as a unit, a Number as the u64 it holds
Value_serialize(e, v) ==
    IF v.type = "Null" THEN Serializer_serialize_unit(e)
    ELSE Serializer_serialize_u64(e, v.n)

\* SerializeMap::serialize_key and serialize_value for one entry of the map
Compound_serialize_entry(e, state, entry) ==
    end_object_value(
        Value_serialize(
            begin_object_value(
                end_object_key(
                    MapKeySerializer_serialize(begin_object_key(e, state = "First"),
                                               Key("str", entry.k, 0, FALSE)).e)),
            entry.v).e)

\* for (k, v) in self { map.serialize_entry(k, v) }, then map.end()
RECURSIVE Map_serialize_loop(_, _, _, _)
Map_serialize_loop(e, map, i, state) ==
    IF i <= Len(map)
    THEN Map_serialize_loop(Compound_serialize_entry(e, state, map[i]), map, i + 1, "Rest")
    ELSE IF state = "Empty" THEN e ELSE end_object(e)

\* Serialize for Map, on a Serializer: serialize_map(Some(self.len())) first
Map_serialize(e, map) ==
    IF Map_len(map) = 0
    THEN Map_serialize_loop(end_object(begin_object(e)), map, 1, "Empty")
    ELSE Map_serialize_loop(begin_object(e), map, 1, "First")

\* to_writer: Serializer::new(writer), value.serialize(&mut ser)
to_writer(map) == Map_serialize(Emitter(<<>>, CompactFormatter, <<>>), map)

\* the map, with the insert calls that built it
MapObj(map, inserted) == [kind |-> "map", map |-> map, inserted |-> inserted]

\* the serializer after to_string of a map built by inserted
Serialized(inserted) == [state |-> "done", err |-> NoError, inserted |-> inserted]

MapInit ==
    /\ ReadInit("slice", <<>>, [keys |-> {}])
    /\ SerIdle
    /\ obj = MapObj(<<>>, <<>>)
    /\ ret = [op |-> "none"]

insert_on(r, k, v) ==
    /\ obj' = MapObj(r.map, Append(obj.inserted, Entry(k, v)))
    /\ ret' = [op |-> "insert", old |-> r.old]
    /\ UNCHANGED <<read_vars, ser_vars>>

MapKeys == {<<>>, <<66>>, <<97>>, <<97, 98>>, <<98>>, <<195, 169>>}

MapValues == {Null, Number(1), Number(2)}

insert ==
    /\ obj.kind = "map"
    /\ Len(obj.inserted) < MaxInserts
    /\ \E k \in MapKeys, v \in MapValues : insert_on(Map_insert(obj.map, k, v), k, v)

\* to_string(&map): to_vec over a new Vec, to_writer
to_string ==
    /\ obj.kind = "map"
    /\ Emit(to_writer(obj.map), Serialized(obj.inserted))
    /\ UNCHANGED <<read_vars, val_vars>>

MapNext == insert \/ to_string

MapSpec == MapInit /\ [][MapNext]_vars

----------------------------------------------------------------------------
(* Properties of Map.                                                      *)

\* a is before b in lexicographic order of bytes: at the first index where
\* they differ a has the smaller byte, or a ends there
BytesBefore(a, b) ==
    \E i \in 1 .. Len(b) :
        /\ i <= Len(a) + 1
        /\ \A j \in 1 .. (i - 1) : a[j] = b[j]
        /\ i = Len(a) + 1 \/ a[i] < b[i]

KeysOf(inserted) == {inserted[i].k : i \in 1 .. Len(inserted)}

\* the value of the last insert of k
LastValue(inserted, k) ==
    inserted[CHOOSE i \in 1 .. Len(inserted) :
                 /\ inserted[i].k = k
                 /\ \A j \in (i + 1) .. Len(inserted) : inserted[j].k # k].v

ValueText(v) == IF v.type = "Null" THEN <<110, 117, 108, 108>> ELSE <<48 + v.n>>

\* the entries of the keys in S, smallest key first, commas between them
RECURSIVE EntriesText(_, _, _)
EntriesText(S, inserted, first) ==
    IF S = {} THEN <<>>
    ELSE LET k == CHOOSE x \in S : \A y \in S \ {x} : BytesBefore(x, y)
         IN (IF first THEN <<>> ELSE <<44>>)
            \o <<34>> \o EscapedBody(k) \o <<34, 58>> \o ValueText(LastValue(inserted, k))
            \o EntriesText(S \ {k}, inserted, FALSE)

\* C16: the text of a Map is "{", one entry for each key inserted, in
\* ascending order of the keys' bytes, with the value of the last insert of
\* the key, and "}", whatever the order of the inserts.
C16_MapKeysSorted ==
    (ser.state = "done" /\ obj.kind = "map") =>
        writer = <<123>> \o EntriesText(KeysOf(ser.inserted), ser.inserted, TRUE) \o <<125>>

\* b:1, a:2 and b:2 inserted in this order give {"a":2,"b":2}
C16_Witness ==
    /\ ser.state = "done"
    /\ obj.kind = "map"
    /\ ser.inserted = <<Entry(<<98>>, Number(1)), Entry(<<97>>, Number(2)),
                        Entry(<<98>>, Number(2))>>
    /\ writer = <<123, 34, 97, 34, 58, 50, 44, 34, 98, 34, 58, 50, 125>>

----------------------------------------------------------------------------
(* ser.rs: serialize_f32 and serialize_f64.  A float is its sign bit, its  *)
(* biased exponent and the pattern of its fraction bits: "zero", "one"     *)
(* (the lowest bit alone), "quiet" (the highest bit alone) or "ones".      *)

Float(bits, sign, exp, frac) == [bits |-> bits, sign |-> sign, exp |-> exp, frac |-> frac]

\* the exponent of all ones: 8 bits in an f32, 11 in an f64
MaxExp(bits) == IF bits = 32 THEN 255 ELSE 2047

\* a classification that takes a NaN for a number
float_classify_nan_normal(value) ==
    IF value.exp = MaxExp(value.bits) /\ value.frac = "zero" THEN "Infinite"
    ELSE IF value.exp = 0 THEN (IF value.frac = "zero" THEN "Zero" ELSE "Subnormal")
    ELSE "Normal"

\* f32::classify / f64::classify
float_classify(value) ==
    IF value.exp = MaxExp(value.bits)
    THEN (IF value.frac = "zero" THEN "Infinite" ELSE "Nan")
    ELSE IF value.exp = 0 THEN (IF value.frac = "zero" THEN "Zero" ELSE "Subnormal")
    ELSE "Normal"

\* the digits ryu gives for the magnitude of the finite floats used here;
\* what it gives for a float that is not finite is not specified
ryu_digits(value) ==
    CASE value.exp = 0 /\ value.frac = "zero" -> <<48, 46, 48>>
      [] value.exp = MaxExp(value.bits) \div 2 /\ value.frac = "zero" -> <<49, 46, 48>>
      [] value.exp = MaxExp(value.bits) \div 2 /\ value.frac = "quiet" -> <<49, 46, 53>>
      [] value.bits = 32 /\ value.exp = 0 /\ value.frac = "one" -> <<49, 101, 45, 52, 53>>
      [] value.bits = 32 /\ value.exp = 1 /\ value.frac = "zero" ->
            <<49, 46, 49, 55, 53, 52, 57, 52, 52, 101, 45, 51, 56>>
      [] value.bits = 32 /\ value.exp = 254 /\ value.frac = "ones" ->
            <<51, 46, 52, 48, 50, 56, 50, 51, 53, 101, 51, 56>>
      [] value.bits = 64 /\ value.exp = 0 /\ value.frac = "one" -> <<53, 101, 45, 51, 50, 52>>
      [] value.bits = 64 /\ value.exp = 1 /\ value.frac = "zero" ->
            <<50, 46, 50, 50, 53, 48, 55, 51, 56, 53, 56, 53, 48, 55, 50, 48, 49, 52,
              101, 45, 51, 48, 56>>
      [] value.bits = 64 /\ value.exp = 2046 /\ value.frac = "ones" ->
            <<49, 46, 55, 57, 55, 54, 57, 51, 49, 51, 52, 56, 54, 50, 51, 49, 53, 55,
              101, 51, 48, 56>>
      [] OTHER -> <<63>>

\* ryu::Buffer::format_finite
ryu_format_finite(value) ==
    IF value.sign = 1 THEN <<45>> \o ryu_digits(value) ELSE ryu_digits(value)

Formatter_write_f32(e, value) ==
    write_all(Called(e, "write_f32", value), ryu_format_finite(value))

Formatter_write_f64(e, value) ==
    write_all(Called(e, "write_f64", value), ryu_format_finite(value))

Serializer_serialize_f32(e, value) ==
    IF float_classify(value) \in {"Nan", "Infinite"} THEN SerOk(Formatter_write_null(e))
    ELSE SerOk(Formatter_write_f32(e, value))

Serializer_serialize_f64(e, value) ==
    IF float_classify(value) \in {"Nan", "Infinite"} THEN SerOk(Formatter_write_null(e))
    ELSE SerOk(Formatter_write_f64(e, value))

\* the finite floats with digits above, and every pattern of the top exponent
FiniteFloats(bits) ==
    {Float(bits, sign, 0, frac) : sign \in {0, 1}, frac \in {"zero", "one"}}
    \cup {Float(bits, sign, 1, "zero") : sign \in {0, 1}}
    \cup {Float(bits, sign, MaxExp(bits) \div 2, frac) : sign \in {0, 1}, frac \in {"zero", "quiet"}}
    \cup {Float(bits, sign, MaxExp(bits) - 1, "ones") : sign \in {0, 1}}

TopFloats(bits) ==
    {Float(bits, sign, MaxExp(bits), frac) :
        sign \in {0, 1}, frac \in {"zero", "one", "quiet", "ones"}}

Floats == FiniteFloats(32) \cup TopFloats(32) \cup FiniteFloats(64) \cup TopFloats(64)

\* a serializer about to write the float of gen
FloatInit ==
    \E f \in {CompactFormatter, PrettyFormatter_new}, value \in Floats :
        /\ ReadInit("slice", <<>>, [value |-> value])
        /\ writer = <<>>
        /\ formatter = f
        /\ calls = <<>>
        /\ ser = SerResult("new", NoError)
        /\ ValIdle

serialize_float_on(r) ==
    /\ Emit(r.e, SerResult("done", r.err))
    /\ UNCHANGED <<read_vars, val_vars>>

serialize_f32 ==
    /\ ser.state = "new"
    /\ gen.value.bits = 32
    /\ serialize_float_on(Serializer_serialize_f32(Self, gen.value))

serialize_f64 ==
    /\ ser.state = "new"
    /\ gen.value.bits = 64
    /\ serialize_float_on(Serializer_serialize_f64(Self, gen.value))

FloatNext == serialize_f32 \/ serialize_f64

FloatSpec == FloatInit /\ [][FloatNext]_vars

----------------------------------------------------------------------------
(* Properties of the float methods.                                        *)

\* NaN and the infinities are the floats whose exponent bits are all ones
NotFinite(value) == value.exp = (IF value.bits = 32 THEN 255 ELSE 2047)

FloatWriter(value) == IF value.bits = 32 THEN "write_f32" ELSE "write_f64"

\* C17: serialize_f32 / serialize_f64 of a NaN or an infinity calls
\* write_null and nothing else, so the text is null; of any finite float it
\* calls write_f32 / write_f64 with the float, and nothing else.
C17_NonFiniteIsNull ==
    ser.state = "done" =>
        /\ Len(calls) = 1
        /\ ser.err = NoError
        /\ IF NotFinite(gen.value)
           THEN calls[1].fn = "write_null" /\ writer = <<110, 117, 108, 108>>
           ELSE calls[1].fn = FloatWriter(gen.value) /\ calls[1].arg = gen.value

\* a signalling NaN of an f64 has been written as null
C17_Witness ==
    /\ ser.state = "done"
    /\ gen.value = Float(64, 1, 2047, "one")
    /\ writer = <<110, 117, 108, 108>>

----------------------------------------------------------------------------
(* value/mod.rs: Value::pointer and Value::pointer_mut.  What they return  *)
(* is a place in the Value: the indices of the entries on the way to it.   *)

MaxPtr == 3

Object(map) == Value("Object", 0, map)

RECURSIVE Elements(_)
Elements(list) == IF list = <<>> THEN <<>> ELSE <<Entry(<<>>, Head(list))>> \o Elements(Tail(list))

Array(list) == Value("Array", 0, Elements(list))

\* Some(place) and None
Some(path) == [some |-> TRUE, path |-> path]

NoPlace == [some |-> FALSE, path |-> <<>>]

\* the value at a place
RECURSIVE ValueAt(_, _)
ValueAt(value, path) ==
    IF path = <<>> THEN value ELSE ValueAt(value.items[Head(path)].v, Tail(path))

\* s.split('/'): the pieces between the slashes, one more than the slashes
RECURSIVE str_split(_, _)
str_split(s, piece) ==
    IF s = <<>> THEN <<piece>>
    ELSE IF Head(s) = 47 THEN <<piece>> \o str_split(Tail(s), <<>>)
    ELSE str_split(Tail(s), Append(piece, Head(s)))

\* s.replace(from, to) for a from of two bytes: left to right, what is
\* written is not looked at again
RECURSIVE str_replace(_, _, _)
str_replace(s, from, to) ==
    IF Len(s) < 2 THEN s
    ELSE IF SubSeq(s, 1, 2) = from THEN to \o str_replace(SubSeq(s, 3, Len(s)), from, to)
    ELSE <<Head(s)>> \o str_replace(Tail(s), from, to)

\* x.replace("~0", "~").replace("~1", "/")
Unescape_tilde_first(x) == str_replace(str_replace(x, <<126, 48>>, <<126>>), <<126, 49>>, <<47>>)

\* x.replace("~1", "/").replace("~0", "~")
Unescape(x) == str_replace(str_replace(x, <<126, 49>>, <<47>>), <<126, 48>>, <<126>>)

\* str::parse::<usize>: the digits in base ten, -1 for anything else (a
\* sign is ruled out before; the strings here are too short to overflow)
RECURSIVE str_parse(_, _)
str_parse(s, n) ==
    IF s = <<>> THEN n
    ELSE IF Head(s) \in 48 .. 57 THEN str_parse(Tail(s), (n * 10) + (Head(s) - 48))
    ELSE None

parse_index(s) ==
    IF s = <<>> THEN None
    ELSE IF Head(s) = 43 \/ (Head(s) = 48 /\ Len(s) # 1) THEN None
    ELSE str_parse(s, 0)

\* map.get(&token) / map.get_mut(&token): the index of the entry, 0 if none
Map_get(map, token) ==
    IF \E i \in 1 .. Len(map) : map[i].k = token
    THEN CHOOSE i \in 1 .. Len(map) : map[i].k = token
    ELSE 0

\* list.get(x) / list.get_mut(x) on the index parse_index gave
Vec_get(list, x) == IF x # None /\ x < Len(list) THEN x + 1 ELSE 0

\* the closure of try_fold: the entry of target that token names, 0 if none
Step(target, token) ==
    IF target.type = "Object" THEN Map_get(target.items, token)
    ELSE IF target.type = "Array" THEN Vec_get(target.items, parse_index(token))
    ELSE 0

\* try_fold over the tokens, in pointer
RECURSIVE pointer_fold(_, _, _)
pointer_fold(target, tokens, path) ==
    IF tokens = <<>> THEN Some(path)
    ELSE IF Step(target, Unescape(Head(tokens))) = 0 THEN NoPlace
    ELSE pointer_fold(target.items[Step(target, Unescape(Head(tokens)))].v, Tail(tokens),
                      Append(path, Step(target, Unescape(Head(tokens)))))

\* try_fold over the tokens, in pointer_mut
RECURSIVE pointer_mut_fold(_, _, _)
pointer_mut_fold(target, tokens, path) ==
    IF tokens = <<>> THEN Some(path)
    ELSE IF Step(target, Unescape(Head(tokens))) = 0 THEN NoPlace
    ELSE pointer_mut_fold(target.items[Step(target, Unescape(Head(tokens)))].v, Tail(tokens),
                          Append(path, Step(target, Unescape(Head(tokens)))))

Value_pointer(self, pointer) ==
    IF pointer = <<>> THEN Some(<<>>)
    ELSE IF Head(pointer) # 47 THEN NoPlace
    ELSE pointer_fold(self, Tail(str_split(pointer, <<>>)), <<>>)

Value_pointer_mut(self, pointer) ==
    IF pointer = <<>> THEN Some(<<>>)
    ELSE IF Head(pointer) # 47 THEN NoPlace
    ELSE pointer_mut_fold(self, Tail(str_split(pointer, <<>>)), <<>>)

\* "~", "/", "0", "1"
PtrBytes == {126, 47, 48, 49}

PtrKeys == SeqsUpTo(PtrBytes, 2)

\* the map with the keys of S, each with a number of its own
RECURSIVE MapOf(_)
MapOf(S) ==
    IF S = {} THEN <<>>
    ELSE Map_insert(MapOf(S \ {CHOOSE k \in S : TRUE}), CHOOSE k \in S : TRUE,
                    Number(Cardinality(S))).map

\* objects of one or two keys, and values with objects and arrays inside
Documents ==
    {Object(MapOf({j, k})) : j \in PtrKeys, k \in PtrKeys}
    \cup {Number(3),
          Array(<<Number(1), Number(2)>>),
          Object(<<Entry(<<>>, Array(<<Null, Object(<<Entry(<<126>>, Number(7))>>)>>)),
                   Entry(<<47>>, Object(<<Entry(<<>>, Number(8))>>)),
                   Entry(<<49>>, Number(9))>>)}

\* what the claim writes for a key: "~0" for "~" and "~1" for "/"
RECURSIVE Enc(_)
Enc(k) ==
    IF k = <<>> THEN <<>>
    ELSE (IF Head(k) = 126 THEN <<126, 48>>
          ELSE IF Head(k) = 47 THEN <<126, 49>> ELSE <<Head(k)>>) \o Enc(Tail(k))

KeysIn(value) ==
    IF value.type = "Object" THEN {value.items[i].k : i \in 1 .. Len(value.items)} ELSE {}

\* short pointers of any form, and the pointers to the keys of value
Pointers(value) ==
    SeqsUpTo(PtrBytes, MaxPtr) \cup {<<47>> \o Enc(k) : k \in KeysIn(value)}

ValueObj(value) == [kind |-> "value", v |-> value]

PointerInit ==
    \E value \in Documents :
        /\ ReadInit("slice", <<>>, [keys |-> {}])
        /\ SerIdle
        /\ obj = ValueObj(value)
        /\ ret = [op |-> "none"]

Returned(op, ptr, place) ==
    /\ ret' = [op |-> op, pointer |-> ptr, place |-> place]
    /\ UNCHANGED <<read_vars, ser_vars, obj>>

\* one call on each value: a call leaves the value as it was
pointer ==
    /\ obj.kind = "value"
    /\ ret.op = "none"
    /\ \E ptr \in Pointers(obj.v) : Returned("pointer", ptr, Value_pointer(obj.v, ptr))

pointer_mut ==
    /\ obj.kind = "value"
    /\ ret.op = "none"
    /\ \E ptr \in Pointers(obj.v) : Returned("pointer_mut", ptr, Value_pointer_mut(obj.v, ptr))

PointerNext == pointer \/ pointer_mut

PointerSpec == PointerInit /\ [][PointerNext]_vars

----------------------------------------------------------------------------
(* Properties of pointer.                                                  *)

\* the entry of the object value that is stored under k
StoredUnder(value, k) == CHOOSE i \in 1 .. Len(value.items) : value.items[i].k = k

\* C18: pointer and pointer_mut with "/" and the encoded form of a key of
\* an object return the place of the value stored under that key; with the
\* empty pointer they return the value itself; with a non-empty pointer
\* that does not start with "/" they return None; and pointer_mut returns
\* the place pointer returns.
C18_PointerRoundTrip ==
    ret.op \in {"pointer", "pointer_mut"} =>
        /\ \A k \in KeysIn(obj.v) :
              ret.pointer = <<47>> \o Enc(k) =>
                  /\ ret.place = Some(<<StoredUnder(obj.v, k)>>)
                  /\ ValueAt(obj.v, ret.place.path) = obj.v.items[StoredUnder(obj.v, k)].v
        /\ ret.pointer = <<>> => ret.place = Some(<<>>)
        /\ (ret.pointer # <<>> /\ ret.pointer[1] # 47) => ret.place = NoPlace
        /\ ret.op = "pointer_mut" => ret.place = Value_pointer(obj.v, ret.pointer)

\* the key "~1" of an object that also has the key "/" has been looked up
\* with "/~01"
C18_Witness ==
    /\ ret.op = "pointer"
    /\ KeysIn(obj.v) = {<<126, 49>>, <<47>>}
    /\ ret.pointer = <<47, 126, 48, 49>>
    /\ ret.place.some
    /\ obj.v.items[ret.place.path[1]].k = <<126, 49>>

----------------------------------------------------------------------------
(* error.rs: ErrorCode, Category, Error::classify and From<Error> for      *)
(* io::Error.                                                              *)

\* ErrorCode other than Message(_) and Io(_)
PlainCodes ==
    {"EofWhileParsingList", "EofWhileParsingObject", "EofWhileParsingString",
     "EofWhileParsingValue", "ExpectedColon", "ExpectedListCommaOrEnd",
     "ExpectedObjectCommaOrEnd", "ExpectedSomeIdent", "ExpectedSomeValue",
     "InvalidEscape", "InvalidNumber", "NumberOutOfRange", "InvalidUnicodeCodePoint",
     "ControlCharacterWhileParsingString", "KeyMustBeAString",
     "LoneLeadingSurrogateInHexEscape", "TrailingComma", "TrailingCharacters",
     "UnexpectedEndOfHexEscape", "RecursionLimitExceeded"}

\* ErrorImpl { code, line, column }: msg is the str of a Message, io the
\* kind of the io::Error of an Io
ErrorImpl(code, msg, io, line, column) ==
    [code |-> code, msg |-> msg, io |-> io, line |-> line, column |-> column]

\* a classification that takes a Message for a syntax error
Error_classify_message_syntax(j) ==
    CASE j.code = "Io" -> "Io"
      [] j.code \in {"EofWhileParsingList", "EofWhileParsingObject",
                     "EofWhileParsingString", "EofWhileParsingValue"} -> "Eof"
      [] OTHER -> "Syntax"

\* Error::classify
Error_classify(j) ==
    CASE j.code = "Message" -> "Data"
      [] j.code = "Io" -> "Io"
      [] j.code \in {"EofWhileParsingList", "EofWhileParsingObject",
                     "EofWhileParsingString", "EofWhileParsingValue"} -> "Eof"
      [] j.code \in {"ExpectedColon", "ExpectedListCommaOrEnd", "ExpectedObjectCommaOrEnd",
                     "ExpectedSomeIdent", "ExpectedSomeValue", "InvalidEscape",
                     "InvalidNumber", "NumberOutOfRange", "InvalidUnicodeCodePoint",
                     "ControlCharacterWhileParsingString", "KeyMustBeAString",
                     "LoneLeadingSurrogateInHexEscape", "TrailingComma",
                     "TrailingCharacters", "UnexpectedEndOfHexEscape",
                     "RecursionLimitExceeded"} -> "Syntax"

\* an io::Error: its kind, whether it is the one an Error held or a new one
\* around the Error, and whether building it ran into unreachable!()
IoError(kind, new, panic) == [kind |-> kind, new |-> new, panic |-> panic]

\* match j.classify() in From<Error> for io::Error
io_Error_from_category(category) ==
    CASE category = "Io" -> IoError("", TRUE, TRUE)
      [] category \in {"Syntax", "Data"} -> IoError("InvalidData", TRUE, FALSE)
      [] category = "Eof" -> IoError("UnexpectedEof", TRUE, FALSE)

\* From<Error> for io::Error
io_Error_from(j) ==
    IF j.code = "Io" THEN IoError(j.io, FALSE, FALSE)
    ELSE io_Error_from_category(Error_classify(j))

IoKinds == {"NotFound", "UnexpectedEof", "InvalidData", "Other"}

Positions == {<<0, 0>>, <<1, 1>>, <<3, 7>>}

Errors ==
    {ErrorImpl(code, <<>>, "", pos[1], pos[2]) : code \in PlainCodes, pos \in Positions}
    \cup {ErrorImpl("Io", <<>>, kind, pos[1], pos[2]) : kind \in IoKinds, pos \in Positions}
    \cup {ErrorImpl("Message", msg, "", pos[1], pos[2]) :
             msg \in {<<>>, <<69, 79, 70>>, <<105, 111>>}, pos \in Positions}

ErrorObj(j) == [kind |-> "error", err |-> j]

ErrorInit ==
    \E j \in Errors :
        /\ ReadInit("slice", <<>>, [keys |-> {}])
        /\ SerIdle
        /\ obj = ErrorObj(j)
        /\ ret = [op |-> "none"]

\* one call on each error: classify leaves it as it was, from consumes it
classify ==
    /\ obj.kind = "error"
    /\ ret.op = "none"
    /\ ret' = [op |-> "classify", category |-> Error_classify(obj.err)]
    /\ UNCHANGED <<read_vars, ser_vars, obj>>

from ==
    /\ obj.kind = "error"
    /\ ret.op = "none"
    /\ ret' = [op |-> "from", err |-> io_Error_from(obj.err)]
    /\ UNCHANGED <<read_vars, ser_vars, obj>>

ErrorNext == classify \/ from

ErrorSpec == ErrorInit /\ [][ErrorNext]_vars

----------------------------------------------------------------------------
(* Properties of Error.                                                    *)

\* the category the claim gives a code
CategoryOf(code) ==
    IF code = "Message" THEN "Data"
    ELSE IF code = "Io" THEN "Io"
    ELSE IF code \in {"EofWhileParsingList", "EofWhileParsingObject",
                      "EofWhileParsingString", "EofWhileParsingValue"} THEN "Eof"
    ELSE "Syntax"

\* C19: classify gives Data for a Message, Io for an Io, Eof for the four
\* EofWhileParsing codes and Syntax for every other code; the io::Error made
\* from an Error is the wrapped one for Io, a new one of kind InvalidData
\* for Syntax and Data and of kind UnexpectedEof for Eof, and making it
\* never reaches unreachable!().
C19_ClassifyAndConvert ==
    /\ ret.op = "classify" =>
          /\ ret.category \in {"Io", "Syntax", "Data", "Eof"}
          /\ ret.category = CategoryOf(obj.err.code)
    /\ ret.op = "from" =>
          /\ ~ret.err.panic
          /\ CategoryOf(obj.err.code) = "Io" => ret.err = IoError(obj.err.io, FALSE, FALSE)
          /\ CategoryOf(obj.err.code) \in {"Syntax", "Data"} =>
                ret.err = IoError("InvalidData", TRUE, FALSE)
          /\ CategoryOf(obj.err.code) = "Eof" =>
                ret.err = IoError("UnexpectedEof", TRUE, FALSE)

\* an Error around an io::Error of kind NotFound has given that error back
C19_Witness ==
    /\ ret.op = "from"
    /\ obj.err.code = "Io"
    /\ obj.err.io = "NotFound"
    /\ ret.err.kind = "NotFound"
    /\ ~ret.err.new

----------------------------------------------------------------------------
(* error.rs: Display for Error, Error::custom, make_error, parse_line_col. *)
(* A usize is held here as its decimal numeral, the digits without leading *)
(* zeros, since it is wider than the integers at hand; line and column of  *)
(* the errors of this part are such numerals.                              *)

\* " at line " and " column "
AtLine == <<32, 97, 116, 32, 108, 105, 110, 101, 32>>

Column == <<32, 99, 111, 108, 117, 109, 110, 32>>

\* usize::MAX on a 64-bit target, 18446744073709551615
usize_MAX == <<49, 56, 52, 52, 54, 55, 52, 52, 48, 55, 51, 55, 48, 57, 53, 53, 49, 54, 49, 53>>

Zero == <<48>>

\* the numeral without its leading zeros
RECURSIVE Canonical(_)
Canonical(digits) ==
    IF Len(digits) > 1 /\ Head(digits) = 48 THEN Canonical(Tail(digits)) ELSE digits

\* a numeral is at most another of the same length
RECURSIVE NumeralLeq(_, _)
NumeralLeq(a, b) ==
    IF a = <<>> THEN TRUE
    ELSE IF Head(a) # Head(b) THEN Head(a) < Head(b)
    ELSE NumeralLeq(Tail(a), Tail(b))

\* the numeral is no more than usize::MAX
FitsUsize(numeral) ==
    \/ Len(numeral) < Len(usize_MAX)
    \/ Len(numeral) = Len(usize_MAX) /\ NumeralLeq(numeral, usize_MAX)

\* a usize::from_str that wraps around instead of failing
usize_from_str_wrapping(s) == IF s = <<>> THEN <<>> ELSE Canonical(s)

\* usize::from_str on a str of digits: the numeral, or <<>> for Err (the
\* str is empty or the number does not fit)
usize_from_str(s) ==
    IF s = <<>> THEN <<>>
    ELSE IF FitsUsize(Canonical(s)) THEN Canonical(s)
    ELSE <<>>

\* Display for ErrorCode; an io::Error shows as the name of its kind
ErrorCode_fmt(j) ==
    CASE j.code = "Message" -> j.msg
      [] j.code = "Io" -> <<105, 111>>
      [] j.code = "EofWhileParsingList" ->
            <<69, 79, 70, 32, 119, 104, 105, 108, 101, 32, 112, 97, 114, 115, 105, 110,
            103, 32, 97, 32, 108, 105, 115, 116>>
      [] j.code = "EofWhileParsingObject" ->
            <<69, 79, 70, 32, 119, 104, 105, 108, 101, 32, 112, 97, 114, 115, 105, 110,
            103, 32, 97, 110, 32, 111, 98, 106, 101, 99, 116>>
      [] j.code = "EofWhileParsingString" ->
            <<69, 79, 70, 32, 119, 104, 105, 108, 101, 32, 112, 97, 114, 115, 105, 110,
            103, 32, 97, 32, 115, 116, 114, 105, 110, 103>>
      [] j.code = "EofWhileParsingValue" ->
            <<69, 79, 70, 32, 119, 104, 105, 108, 101, 32, 112, 97, 114, 115, 105, 110,
            103, 32, 97, 32, 118, 97, 108, 117, 101>>
      [] j.code = "ExpectedColon" ->
            <<101, 120, 112, 101, 99, 116, 101, 100, 32, 96, 58, 96>>
      [] j.code = "ExpectedListCommaOrEnd" ->
            <<101, 120, 112, 101, 99, 116, 101, 100, 32, 96, 44, 96, 32, 111, 114, 32,
            96, 93, 96>>
      [] j.code = "ExpectedObjectCommaOrEnd" ->
            <<101, 120, 112, 101, 99, 116, 101, 100, 32, 96, 44, 96, 32, 111, 114, 32,
            96, 125, 96>>
      [] j.code = "ExpectedSomeIdent" ->
            <<101, 120, 112, 101, 99, 116, 101, 100, 32, 105, 100, 101, 110, 116>>
      [] j.code = "ExpectedSomeValue" ->
            <<101, 120, 112, 101, 99, 116, 101, 100, 32, 118, 97, 108, 117, 101>>
      [] j.code = "InvalidEscape" ->
            <<105, 110, 118, 97, 108, 105, 100, 32, 101, 115, 99, 97, 112, 101>>
      [] j.code = "InvalidNumber" ->
            <<105, 110, 118, 97, 108, 105, 100, 32, 110, 117, 109, 98, 101, 114>>
      [] j.code = "NumberOutOfRange" ->
            <<110, 117, 109, 98, 101, 114, 32, 111, 117, 116, 32, 111, 102, 32, 114, 97,
            110, 103, 101>>
      [] j.code = "InvalidUnicodeCodePoint" ->
            <<105, 110, 118, 97, 108, 105, 100, 32, 117, 110, 105, 99, 111, 100, 101,
            32, 99, 111, 100, 101, 32, 112, 111, 105, 110, 116>>
      [] j.code = "ControlCharacterWhileParsingString" ->
            <<99, 111, 110, 116, 114, 111, 108, 32, 99, 104, 97, 114, 97, 99, 116, 101,
            114, 32, 40, 92, 117, 48, 48, 48, 48, 45, 92, 117, 48, 48, 49, 70, 41, 32,
            102, 111, 117, 110, 100, 32, 119, 104, 105, 108, 101, 32, 112, 97, 114, 115,
            105, 110, 103, 32, 97, 32, 115, 116, 114, 105, 110, 103>>
      [] j.code = "KeyMustBeAString" ->
            <<107, 101, 121, 32, 109, 117, 115, 116, 32, 98, 101, 32, 97, 32, 115, 116,
            114, 105, 110, 103>>
      [] j.code = "LoneLeadingSurrogateInHexEscape" ->
            <<108, 111, 110, 101, 32, 108, 101, 97, 100, 105, 110, 103, 32, 115, 117,
            114, 114, 111, 103, 97, 116, 101, 32, 105, 110, 32, 104, 101, 120, 32, 101,
            115, 99, 97, 112, 101>>
      [] j.code = "TrailingComma" ->
            <<116, 114, 97, 105, 108, 105, 110, 103, 32, 99, 111, 109, 109, 97>>
      [] j.code = "TrailingCharacters" ->
            <<116, 114, 97, 105, 108, 105, 110, 103, 32, 99, 104, 97, 114, 97, 99, 116,
            101, 114, 115>>
      [] j.code = "UnexpectedEndOfHexEscape" ->
            <<117, 110, 101, 120, 112, 101, 99, 116, 101, 100, 32, 101, 110, 100, 32,
            111, 102, 32, 104, 101, 120, 32, 101, 115, 99, 97, 112, 101>>
      [] j.code = "RecursionLimitExceeded" ->
            <<114, 101, 99, 117, 114, 115, 105, 111, 110, 32, 108, 105, 109, 105, 116,
            32, 101, 120, 99, 101, 101, 100, 101, 100>>

\* Display for ErrorImpl
ErrorImpl_fmt(j) ==
    IF j.line = Zero THEN ErrorCode_fmt(j)
    ELSE ErrorCode_fmt(j) \o AtLine \o j.line \o Column \o j.column

\* msg.rfind(pat), looking from index i down; None if there is none
RECURSIVE str_rfind(_, _, _)
str_rfind(msg, pat, i) ==
    IF i < 0 THEN None
    ELSE IF SubSeq(msg, i + 1, i + Len(pat)) = pat THEN i
    ELSE str_rfind(msg, pat, i - 1)

\* starts_with_digit(&msg[i..])
starts_with_digit(msg, i) == i < Len(msg) /\ msg[i + 1] \in 48 .. 57

\* while starts_with_digit(&msg[end..]) { end += 1 }
RECURSIVE end_of_digits(_, _)
end_of_digits(msg, i) ==
    IF starts_with_digit(msg, i) THEN end_of_digits(msg, i + 1) ELSE i

\* msg[i..].starts_with(pat)
starts_with_at(msg, i, pat) ==
    i + Len(pat) <= Len(msg) /\ SubSeq(msg, i + 1, i + Len(pat)) = pat

\* Option<(usize, usize)> and the msg as parse_line_col leaves it
LineCol(msg, line, column) == [some |-> TRUE, msg |-> msg, line |-> line, column |-> column]

NoLineCol(msg) == [some |-> FALSE, msg |-> msg, line |-> Zero, column |-> Zero]

\* parse_line_col once both numbers are delimited: they are parsed and the
\* suffix is cut off
parse_line_col_numbers(msg, start_of_suffix, line, column) ==
    IF line = <<>> \/ column = <<>> THEN NoLineCol(msg)
    ELSE LineCol(SubSeq(msg, 1, start_of_suffix), line, column)

\* parse_line_col from the column number on
parse_line_col_column(msg, start_of_suffix, start_of_line, end_of_line, end_of_column) ==
    IF end_of_column < Len(msg) THEN NoLineCol(msg)
    ELSE parse_line_col_numbers(
             msg, start_of_suffix,
             usize_from_str(SubSeq(msg, start_of_line + 1, end_of_line)),
             usize_from_str(SubSeq(msg, end_of_line + Len(Column) + 1, end_of_column)))

\* parse_line_col from the line number on
parse_line_col_line(msg, start_of_suffix, start_of_line, end_of_line) ==
    IF ~starts_with_at(msg, end_of_line, Column) THEN NoLineCol(msg)
    ELSE parse_line_col_column(msg, start_of_suffix, start_of_line, end_of_line,
                               end_of_digits(msg, end_of_line + Len(Column)))

parse_line_col_suffix(msg, start_of_suffix) ==
    IF start_of_suffix = None THEN NoLineCol(msg)
    ELSE parse_line_col_line(msg, start_of_suffix, start_of_suffix + Len(AtLine),
                             end_of_digits(msg, start_of_suffix + Len(AtLine)))

parse_line_col(msg) == parse_line_col_suffix(msg, str_rfind(msg, AtLine, Len(msg) - Len(AtLine)))

\* make_error: unwrap_or((0, 0)), and the msg left is the Message
make_error_on(r) == ErrorImpl("Message", r.msg, "", r.line, r.column)

make_error(msg) == make_error_on(parse_line_col(msg))

\* Error::custom
Error_custom(msg) == make_error(msg)

\* numerals and near-numerals a message can carry: none, 0, 7, 12, 007,
\* usize::MAX, usize::MAX + 1, and 10^20
Numerals ==
    {<<>>, <<48>>, <<55>>, <<49, 50>>, <<48, 48, 55>>, usize_MAX,
     <<49, 56, 52, 52, 54, 55, 52, 52, 48, 55, 51, 55, 48, 57, 53, 53, 49, 54, 49, 54>>,
     <<49, 48, 48, 48, 48, 48, 48, 48, 48, 48, 48, 48, 48, 48, 48, 48, 48, 48, 48, 48, 48>>}

\* what a message can start with: nothing, "e", "e at line 1 column 2"
Prefixes == {<<>>, <<101>>, <<101>> \o AtLine \o <<49>> \o Column \o <<50>>}

\* " at line " and " column " whole, cut short, or left out
LineMarks == {<<>>, AtLine, SubSeq(AtLine, 1, Len(AtLine) - 1), Tail(AtLine)}

ColumnMarks == {<<>>, Column, SubSeq(Column, 1, Len(Column) - 1)}

\* what can follow the column number: nothing, " ", "x"
Trailers == {<<>>, <<32>>, <<120>>}

Messages ==
    {p \o l \o n \o c \o m \o t :
        p \in Prefixes, l \in LineMarks, n \in Numerals, c \in ColumnMarks,
        m \in Numerals, t \in Trailers}

\* the codes, messages and positions Error::syntax is called with
SyntaxCodes == {"EofWhileParsingValue", "ExpectedColon", "KeyMustBeAString",
                "ControlCharacterWhileParsingString", "TrailingCharacters", "Message"}

SyntaxMessages == {<<>>, <<101>>, <<101>> \o AtLine \o <<51>> \o Column \o <<52>>,
                   <<101>> \o AtLine, <<101>> \o AtLine \o <<51>> \o Column}

SyntaxNumerals == {Zero, <<49>>, <<49, 50>>, usize_MAX}

NoOrigin == ErrorImpl("", <<>>, "", Zero, Zero)

\* what the calls so far gave: the last call, the str it took or gave, the
\* Error that Error::syntax built and the first text Display gave for it
Returns(op, text, origin, first) ==
    [op |-> op, text |-> text, origin |-> origin, first |-> first]

\* the errors Error::syntax is asked for
SyntaxErrors ==
    {ErrorImpl(code, <<>>, "", line, column) :
        code \in SyntaxCodes \ {"Message"}, line \in SyntaxNumerals,
        column \in SyntaxNumerals}
    \cup {ErrorImpl("Message", msg, "", line, column) :
        msg \in SyntaxMessages, line \in SyntaxNumerals, column \in SyntaxNumerals}

\* a behaviour is either of Error::custom on a message or of Error::syntax
\* and what follows it
CustomInit ==
    \E g \in {[keys |-> {}, msg |-> msg, err |-> NoOrigin] : msg \in Messages}
             \cup {[keys |-> {}, msg |-> <<>>, err |-> j] : j \in SyntaxErrors} :
        /\ ReadInit("slice", <<>>, g)
        /\ SerIdle
        /\ obj = [kind |-> "none"]
        /\ ret = Returns("none", <<>>, NoOrigin, <<>>)

\* Error::syntax(code, line, column)
syntax ==
    /\ obj.kind = "none"
    /\ gen.err # NoOrigin
    /\ obj' = ErrorObj(gen.err)
    /\ ret' = Returns("syntax", <<>>, gen.err, <<>>)
    /\ UNCHANGED <<read_vars, ser_vars>>

\* err.to_string()
display ==
    /\ obj.kind = "error"
    /\ ret.op \in {"syntax", "custom"}
    /\ ret' = Returns("display", ErrorImpl_fmt(obj.err), ret.origin,
                      IF ret.op = "syntax" THEN ErrorImpl_fmt(obj.err) ELSE ret.first)
    /\ UNCHANGED <<read_vars, ser_vars, obj>>

custom_on(msg) ==
    /\ obj' = ErrorObj(Error_custom(msg))
    /\ ret' = Returns("custom", msg, ret.origin, ret.first)
    /\ UNCHANGED <<read_vars, ser_vars>>

\* Error::custom(msg), on a message of the caller or on the text Display
\* gave for the last error
custom ==
    \/ obj.kind = "none" /\ gen.err = NoOrigin /\ custom_on(gen.msg)
    \/ ret.op = "display" /\ custom_on(ret.text)

CustomNext == syntax \/ display \/ custom

CustomSpec == CustomInit /\ [][CustomNext]_vars

----------------------------------------------------------------------------
(* Properties of Error::custom.                                            *)

AllDigits(s) == \A i \in 1 .. Len(s) : s[i] \in 48 .. 57

\* msg is its first n chars, " at line ", a numeral that fits a usize,
\* " column ", and a numeral that fits a usize from index k to the end
SuffixAt(msg, n, k) ==
    /\ n + Len(AtLine) < k - Len(Column)
    /\ SubSeq(msg, n + 1, n + Len(AtLine)) = AtLine
    /\ AllDigits(SubSeq(msg, n + Len(AtLine) + 1, k - Len(Column)))
    /\ FitsUsize(Canonical(SubSeq(msg, n + Len(AtLine) + 1, k - Len(Column))))
    /\ SubSeq(msg, k - Len(Column) + 1, k) = Column
    /\ k < Len(msg)
    /\ AllDigits(SubSeq(msg, k + 1, Len(msg)))
    /\ FitsUsize(Canonical(SubSeq(msg, k + 1, Len(msg))))

HasSuffix(msg) == \E n \in 0 .. Len(msg), k \in 0 .. Len(msg) : SuffixAt(msg, n, k)

\* the error the claim gives for msg
CustomAsClaimed(msg, j) ==
    /\ j.code = "Message"
    /\ \A n \in 0 .. Len(msg), k \in 0 .. Len(msg) :
          SuffixAt(msg, n, k) =>
              /\ j.line = Canonical(SubSeq(msg, n + Len(AtLine) + 1, k - Len(Column)))
              /\ j.column = Canonical(SubSeq(msg, k + 1, Len(msg)))
              /\ j.msg = SubSeq(msg, 1, n)
    /\ ~HasSuffix(msg) => j.line = Zero /\ j.column = Zero /\ j.msg = msg

\* C20: Error::custom(m) on an m that ends with " at line N column M", N
\* and M non-empty decimal numerals that fit a usize, gives an error of line
\* N, column M and message m without that suffix; on any other m it gives
\* line 0, column 0 and message m. An error of Error::syntax with line >= 1
\* that Display turns into text and Error::custom takes back keeps its
\* line, its column and its Display text.
C20_CustomLineColumn ==
    /\ ret.op = "custom" => CustomAsClaimed(ret.text, obj.err)
    /\ ret.origin.code # "" /\ ret.origin.line # Zero =>
          /\ ret.op = "custom" =>
                obj.err.line = ret.origin.line /\ obj.err.column = ret.origin.column
          /\ ret.op = "display" => ret.text = ret.first

\* the text of a Message "e at line 3 column 4" that Error::syntax put at
\* line 12 column 1 has come back through custom, cut at the second suffix
C20_Witness ==
    /\ ret.op = "custom"
    /\ ret.origin = ErrorImpl("Message", <<101>> \o AtLine \o <<51>> \o Column \o <<52>>,
                              "", <<49, 50>>, <<49>>)
    /\ ret.text = <<101>> \o AtLine \o <<51>> \o Column \o <<52>>
                     \o AtLine \o <<49, 50>> \o Column \o <<49>>
    /\ obj.err = ret.origin

----------------------------------------------------------------------------
(* The parser: recursive descent over one source with a depth counter.     *)
(* The descent is held as a stack of the containers open, and each step of *)
(* it is one action.  Numbers are integers here, and the inputs carry no   *)
(* fraction and no exponent.                                               *)

\* the cap of the depth counter
RecursionLimit == 128

\* the parser: the depth counter, the containers open ("[" or "{", the
\* innermost last), what it is about to do, and its error
Deserializer(depth, stack, phase, err) ==
    [kind |-> "de", depth |-> depth, stack |-> stack, phase |-> phase, err |-> err]

Deserializer_new == Deserializer(0, <<>>, "value", NoError)

\* a step of the parser: the source and the parser afterwards
Stepped(r, de) == [r |-> r, de |-> de]

Failed(r, de, err) == Stepped(r, [de EXCEPT !.phase = "failed", !.err = err])

\* a value is complete: the parser goes on after it in the innermost
\* container open, or at the end of the input
AfterValue(r, de) ==
    Stepped(r, [de EXCEPT !.phase =
                  IF de.stack = <<>> THEN "end"
                  ELSE IF de.stack[Len(de.stack)] = "[" THEN "seq_next"
                  ELSE "map_next"])

\* skip space, \t, \n, \r; the first byte after them is peeked
RECURSIVE parse_whitespace(_)
parse_whitespace_on(p) ==
    IF p.v \in {32, 9, 10, 13} THEN parse_whitespace(Read_discard(p.r)) ELSE p

parse_whitespace(r) == parse_whitespace_on(Read_peek(r))

\* the rest of a keyword: each byte is consumed and compared
RECURSIVE parse_ident(_, _, _)
parse_ident_on(n, de, ident) ==
    IF n.v = ErrVal THEN Failed(n.r, de, Error_io)
    ELSE IF n.v = None THEN Failed(n.r, de, error(n.r, "EofWhileParsingValue"))
    ELSE IF n.v # Head(ident) THEN Failed(n.r, de, error(n.r, "ExpectedSomeIdent"))
    ELSE parse_ident(n.r, de, Tail(ident))

parse_ident(r, de, ident) ==
    IF ident = <<>> THEN AfterValue(r, de)
    ELSE parse_ident_on(Read_next(r), de, ident)

\* the digits of an integer after its first digit
RECURSIVE parse_digits(_, _)
parse_digits_on(p, de) ==
    IF p.v \in 48 .. 57 THEN parse_digits(Read_discard(p.r), de)
    ELSE AfterValue(p.r, de)

parse_digits(r, de) == parse_digits_on(Read_peek(r), de)

\* an integer whose first byte `first` has been consumed: 0 stands alone
parse_integer_on(p, de, first) ==
    IF first = 48 THEN
        IF p.v \in 48 .. 57 THEN Failed(p.r, de, Error_at("InvalidNumber", Read_peek_position(p.r)))
        ELSE AfterValue(p.r, de)
    ELSE parse_digits_on(p, de)

parse_integer(r, de, first) == parse_integer_on(Read_peek(r), de, first)

\* after the minus sign a digit has to come
parse_negative_on(n, de) ==
    IF n.v = ErrVal THEN Failed(n.r, de, Error_io)
    ELSE IF n.v = None THEN Failed(n.r, de, error(n.r, "EofWhileParsingValue"))
    ELSE IF n.v \in 48 .. 57 THEN parse_integer(n.r, de, n.v)
    ELSE Failed(n.r, de, error(n.r, "InvalidNumber"))

\* a string after its opening quote
parse_string_on(s, de) ==
    IF s.tag = "Err" THEN Failed(s.r, de, s.err) ELSE AfterValue(s.r, de)

\* a depth counter that is not checked
check_recursion_unchecked(r, de, open) ==
    Stepped(r, [de EXCEPT !.depth = @ + 1, !.stack = Append(@, open),
                          !.phase = IF open = "[" THEN "seq_first" ELSE "map_first"])

\* the opener has been consumed: the depth counter goes up by one, unless
\* it would then be over the cap, which fails the parser
check_recursion(r, de, open) ==
    IF de.depth + 1 > RecursionLimit
    THEN Failed(r, de, error(r, "RecursionLimitExceeded"))
    ELSE Stepped(r, [de EXCEPT !.depth = @ + 1, !.stack = Append(@, open),
                               !.phase = IF open = "[" THEN "seq_first" ELSE "map_first"])

\* the closer has been consumed: the depth counter goes down by one
end_container(r, de) ==
    AfterValue(r, [de EXCEPT !.depth = @ - 1, !.stack = SubSeq(@, 1, Len(@) - 1)])

\* dispatch on the first byte of a value that is not whitespace
parse_value_on(p, de) ==
    IF p.v = ErrVal THEN Failed(p.r, de, Error_io)
    ELSE IF p.v = None THEN Failed(p.r, de, error(p.r, "EofWhileParsingValue"))
    ELSE IF p.v = 110 THEN parse_ident(Read_discard(p.r), de, <<117, 108, 108>>)
    ELSE IF p.v = 116 THEN parse_ident(Read_discard(p.r), de, <<114, 117, 101>>)
    ELSE IF p.v = 102 THEN parse_ident(Read_discard(p.r), de, <<97, 108, 115, 101>>)
    ELSE IF p.v = 34 THEN parse_string_on(Read_parse_str(Read_discard(p.r), <<>>), de)
    ELSE IF p.v = 45 THEN parse_negative_on(Read_next(Read_discard(p.r)), de)
    ELSE IF p.v \in 48 .. 57 THEN parse_integer(Read_discard(p.r), de, p.v)
    ELSE IF p.v = 91 THEN check_recursion(Read_discard(p.r), de, "[")
    ELSE IF p.v = 123 THEN check_recursion(Read_discard(p.r), de, "{")
    ELSE Failed(p.r, de, Error_at("ExpectedSomeValue", Read_peek_position(p.r)))

\* after the comma of an array: a closer there is a trailing comma
seq_after_comma(p, de) ==
    IF p.v = ErrVal THEN Failed(p.r, de, Error_io)
    ELSE IF p.v = 93 THEN Failed(p.r, de, Error_at("TrailingComma", Read_peek_position(p.r)))
    ELSE Stepped(p.r, [de EXCEPT !.phase = "value"])

\* an array after its opener or after an element
next_element_on(p, de) ==
    IF p.v = ErrVal THEN Failed(p.r, de, Error_io)
    ELSE IF p.v = None THEN Failed(p.r, de, error(p.r, "EofWhileParsingList"))
    ELSE IF p.v = 93 THEN end_container(Read_discard(p.r), de)
    ELSE IF de.phase = "seq_first" THEN Stepped(p.r, [de EXCEPT !.phase = "value"])
    ELSE IF p.v = 44 THEN seq_after_comma(parse_whitespace(Read_discard(p.r)), de)
    ELSE Failed(p.r, de, Error_at("ExpectedListCommaOrEnd", Read_peek_position(p.r)))

\* the colon after a key
parse_object_colon(p, de) ==
    IF p.v = ErrVal THEN Failed(p.r, de, Error_io)
    ELSE IF p.v = None THEN Failed(p.r, de, error(p.r, "EofWhileParsingObject"))
    ELSE IF p.v = 58 THEN Stepped(Read_discard(p.r), [de EXCEPT !.phase = "value"])
    ELSE Failed(p.r, de, Error_at("ExpectedColon", Read_peek_position(p.r)))

parse_key_on(s, de) ==
    IF s.tag = "Err" THEN Failed(s.r, de, s.err)
    ELSE parse_object_colon(parse_whitespace(s.r), de)

\* where a key has to start
parse_key(p, de) ==
    IF p.v = ErrVal THEN Failed(p.r, de, Error_io)
    ELSE IF p.v = None THEN Failed(p.r, de, error(p.r, "EofWhileParsingObject"))
    ELSE IF p.v = 34 THEN parse_key_on(Read_parse_str(Read_discard(p.r), <<>>), de)
    ELSE Failed(p.r, de, Error_at("KeyMustBeAString", Read_peek_position(p.r)))

\* after the comma of an object: a closer there is a trailing comma
map_after_comma(p, de) ==
    IF p.v = 125 THEN Failed(p.r, de, Error_at("TrailingComma", Read_peek_position(p.r)))
    ELSE parse_key(p, de)

\* an object after its opener or after an entry
next_key_on(p, de) ==
    IF p.v = ErrVal THEN Failed(p.r, de, Error_io)
    ELSE IF p.v = None THEN Failed(p.r, de, error(p.r, "EofWhileParsingObject"))
    ELSE IF p.v = 125 THEN end_container(Read_discard(p.r), de)
    ELSE IF de.phase = "map_first" THEN parse_key(p, de)
    ELSE IF p.v = 44 THEN map_after_comma(parse_whitespace(Read_discard(p.r)), de)
    ELSE Failed(p.r, de, Error_at("ExpectedObjectCommaOrEnd", Read_peek_position(p.r)))

\* after the top-level value only whitespace may come
Deserializer_end_on(p, de) ==
    IF p.v = ErrVal THEN Failed(p.r, de, Error_io)
    ELSE IF p.v = None THEN Stepped(p.r, [de EXCEPT !.phase = "done"])
    ELSE Failed(p.r, de, Error_at("TrailingCharacters", Read_peek_position(p.r)))

\* one step of the parser
Deserializer_step(r, de) ==
    CASE de.phase = "value" -> parse_value_on(parse_whitespace(r), de)
      [] de.phase \in {"seq_first", "seq_next"} -> next_element_on(parse_whitespace(r), de)
      [] de.phase \in {"map_first", "map_next"} -> next_key_on(parse_whitespace(r), de)
      [] de.phase = "end" -> Deserializer_end_on(parse_whitespace(r), de)

\* the parser takes a step: the history keeps the value the counter had
\* before each container now open, and the one a container just closed had
Descend(s, op) ==
    /\ rd' = s.r
    /\ obj' = s.de
    /\ ret' = [op |-> op,
               marks |-> IF Len(s.de.stack) > Len(obj.stack) THEN Append(ret.marks, obj.depth)
                         ELSE IF Len(s.de.stack) < Len(obj.stack)
                         THEN SubSeq(ret.marks, 1, Len(ret.marks) - 1)
                         ELSE ret.marks,
               mark |-> IF Len(s.de.stack) < Len(obj.stack) THEN ret.marks[Len(ret.marks)]
                        ELSE None]
    /\ UNCHANGED <<input, failed, last, consumed, latched, gen, ser_vars>>

parse_value ==
    /\ obj.kind = "de"
    /\ obj.phase = "value"
    /\ Descend(Deserializer_step(rd, obj), "parse_value")

next_element ==
    /\ obj.kind = "de"
    /\ obj.phase \in {"seq_first", "seq_next"}
    /\ Descend(Deserializer_step(rd, obj), "next_element")

next_key ==
    /\ obj.kind = "de"
    /\ obj.phase \in {"map_first", "map_next"}
    /\ Descend(Deserializer_step(rd, obj), "next_key")

Deserializer_end ==
    /\ obj.kind = "de"
    /\ obj.phase = "end"
    /\ Descend(Deserializer_step(rd, obj), "end")

\* n times the bytes of piece
Repeated(piece, n) == [i \in 1 .. n * Len(piece) |-> piece[((i - 1) % Len(piece)) + 1]]

\* of n containers nested in one another, the arrays; a mixed nest is
\* arrays around objects
ArraysIn(shape, n) ==
    CASE shape = "array" -> n
      [] shape = "object" -> 0
      [] shape = "mixed" -> n - (n \div 2)

\* the openers of the nest, the outermost first; an object opens on the
\* key "a"
Opening(shape, n) ==
    Repeated(<<91>>, ArraysIn(shape, n))
    \o Repeated(<<123, 34, 97, 34, 58>>, n - ArraysIn(shape, n))

\* its closers, the innermost first
Closings(shape, n) ==
    Repeated(<<125>>, n - ArraysIn(shape, n)) \o Repeated(<<93>>, ArraysIn(shape, n))

Shapes == {"array", "object", "mixed"}

Depths == {0, 1, 2, RecursionLimit - 1, RecursionLimit, RecursionLimit + 1,
           RecursionLimit + 2}

\* what the innermost container holds: its bytes, the containers it opens
\* itself, and whether it is a value; null, -10, "a", 1 between spaces,
\* [], {}, x and nothing
Cores ==
    {[bytes |-> <<110, 117, 108, 108>>, depth |-> 0, valid |-> TRUE],
     [bytes |-> <<45, 49, 48>>, depth |-> 0, valid |-> TRUE],
     [bytes |-> <<34, 97, 34>>, depth |-> 0, valid |-> TRUE],
     [bytes |-> <<32, 49, 32>>, depth |-> 0, valid |-> TRUE],
     [bytes |-> <<91, 93>>, depth |-> 1, valid |-> TRUE],
     [bytes |-> <<123, 125>>, depth |-> 1, valid |-> TRUE],
     [bytes |-> <<120>>, depth |-> 0, valid |-> FALSE],
     [bytes |-> <<>>, depth |-> 0, valid |-> FALSE]}

\* a document: n containers around a core, closed or cut off after the core
Nested(shape, n, core, closed) ==
    [shape |-> shape, n |-> n, core |-> core, closed |-> closed,
     data |-> Opening(shape, n) \o core.bytes
              \o (IF closed THEN Closings(shape, n) ELSE <<>>)]

DepthInit ==
    \E shape \in Shapes, n \in Depths, core \in Cores, closed \in BOOLEAN :
        /\ core.bytes = <<>> => ~closed
        /\ ReadInit("io", Nested(shape, n, core, closed).data, Nested(shape, n, core, closed))
        /\ SerIdle
        /\ obj = Deserializer_new
        /\ ret = [op |-> "none", marks |-> <<>>, mark |-> None]

DepthNext == parse_value \/ next_element \/ next_key \/ Deserializer_end

DepthSpec == DepthInit /\ [][DepthNext]_vars

----------------------------------------------------------------------------
(* Properties of the parser's depth counter.                               *)

\* the containers open after the first k bytes of the input, none of whose
\* strings holds a bracket or a brace
OpenAfter(k) ==
    Cardinality({i \in 1 .. k : input[i] \in {91, 123}})
    - Cardinality({i \in 1 .. k : input[i] \in {93, 125}})

\* the document is a value nested no deeper than d
WellFormedWithin(d) ==
    /\ gen.core.valid
    /\ gen.closed \/ gen.n = 0
    /\ gen.n + gen.core.depth <= d

----------------------------------------------------------------------------
(* Properties of position() and byte_offset() around peek().               *)

\* C22: a peek() leaves the value of position() as it was, on the reader
\* source and on the slice source: position() stays the position of the byte
\* most recently returned by next() or consumed by discard().
C22_PeekKeepsPosition ==
    [][last'.op = "peek" => Read_position(rd') = Read_position(rd)]_vars


\* the bytes among the first n items of the reader
Yielded(n) == OkBytes(SubSeq(input, 1, n))

\* C23: byte_offset() is the number of bytes consumed by next() and
\* discard(), and the byte at that offset of the input is the one next() and
\* peek() give; a peek outstanding does not count; the reader source and the
\* slice source over the same bytes give a byte or the end of input at the
\* same offsets, so that the same calls leave them at the same offset; in the LineColIterator start_of_line + col is the number
\* of bytes it has yielded.
C23_ByteOffsetCountsConsumed ==
    /\ Read_byte_offset(rd) = Len(consumed)
    /\ consumed = SubSeq(OkBytes(input), 1, Len(consumed))
    /\ Read_peek(rd).v \in Byte => Read_peek(rd).v = OkBytes(input)[Read_byte_offset(rd) + 1]
    /\ Read_next(rd).v \in Byte => Read_next(rd).v = OkBytes(input)[Read_byte_offset(rd) + 1]
    /\ ~latched /\ input = OkBytes(input) =>
          /\ Read_next(rd).v = None <=> Read_byte_offset(rd) = Len(input)
          /\ Read_peek(rd).v = None <=> Read_byte_offset(rd) = Len(input)
          /\ Read_next(rd).v # ErrVal /\ Read_peek(rd).v # ErrVal
    /\ rd.kind = "io" =>
          /\ LineColIterator_byte_offset(rd.iter) = Len(Yielded(rd.iter.iter.pos))
          /\ Read_byte_offset(rd)
               = SliceRead_byte_offset(
                     [SliceRead_new(OkBytes(input)) EXCEPT !.index = Len(consumed)])

\* the reader source holds a peeked byte after a newline and a letter were
\* consumed: the offset is 2
C23_Witness ==
    /\ rd.kind = "io"
    /\ rd.ch # None
    /\ last.op = "peek"
    /\ consumed = <<10, 97>>
    /\ Read_byte_offset(rd) = 2

----------------------------------------------------------------------------
(* The sources compared: what a call gives on the reader source and on the *)
(* slice source over the same bytes, from the same offset.                 *)

\* a reader source over the bytes of the input that has consumed n of them
IoTwin(n) == [kind |-> "io", iter |-> TrackerAfter(OkBytes(input), n), ch |-> None]

\* a slice source over the bytes of the input that has consumed n of them
SliceTwin(n) == [SliceRead_new(OkBytes(input)) EXCEPT !.index = n]

\* the two results are both Ok after the same number of bytes consumed, or
\* both Err with the same code, line and column
SameOutcome(a, b) ==
    /\ (a.tag = "Err") = (b.tag = "Err")
    /\ a.tag # "Err" => Read_byte_offset(a.r) = Read_byte_offset(b.r)
    /\ a.tag = "Err" => a.err = b.err

\* the result the call of the last action gave is the one computed by out
IsLastResult(out) ==
    /\ last.res.tag = out.tag
    /\ last.res.err = out.err
    /\ Read_byte_offset(rd) = Read_byte_offset(out.r)

\* C24: ignore_str gives the same on the reader source and on the slice
\* source: Ok after the same number of bytes consumed, or an error of the same
\* kind at the same line and column; a raw byte below 0x20 is rejected by both
\* with ControlCharacterWhileParsingString.
C24_IgnoreStrSameOnSources ==
    last.op = "ignore_str" /\ input = OkBytes(input) =>
        /\ IsLastResult(IF rd.kind = "io" THEN IoRead_ignore_str(IoTwin(last.start))
                        ELSE SliceRead_ignore_str(SliceTwin(last.start)))
        /\ SameOutcome(IoRead_ignore_str(IoTwin(last.start)),
                       SliceRead_ignore_str(SliceTwin(last.start)))

----------------------------------------------------------------------------
(* PrettyFormatter with the default indentation and with a tab.            *)

PrettyInit ==
    \E f \in {PrettyFormatter_new, PrettyFormatter_with_indent(<<9>>)} :
        SerInit(f, ContainerKeys)

PrettySpec == PrettyInit /\ [][ContainerNext]_vars

\* no container has been given a length hint that its elements belie: the
\* ones ended had as many as their hint, the open ones have no more so far
TruthfulSoFar ==
    /\ \A k \in 1 .. Len(ser.stack) :
          /\ ser.stack[k].nested
          /\ ser.stack[k].hint # None => ser.stack[k].n <= ser.stack[k].hint
    /\ (ser.stack = <<>> /\ ser.ended # NoCompound) =>
          HonestHint(ser.ended) /\ ser.ended.nested

\* the openers less the closers among the first i bytes written; no key of
\* ContainerKeys holds a bracket, a brace or a newline
OpenIn(i) ==
    Cardinality({j \in 1 .. i : writer[j] \in {91, 123}})
    - Cardinality({j \in 1 .. i : writer[j] \in {93, 125}})

\* after byte i of the writer come exactly k copies of the indent string
IndentedBy(i, k) ==
    /\ i + k * Len(formatter.indent) <= Len(writer)
    /\ SubSeq(writer, i + 1, i + k * Len(formatter.indent)) = Repeated(formatter.indent, k)
    /\ i + k * Len(formatter.indent) < Len(writer) =>
          writer[i + k * Len(formatter.indent) + 1] # formatter.indent[1]

\* the first byte after the indentation that follows byte i, None if the
\* writer ends there
AfterIndent(i) ==
    IF \E j \in (i + 1) .. Len(writer) : writer[j] # formatter.indent[1]
    THEN writer[CHOOSE j \in (i + 1) .. Len(writer) :
                    /\ writer[j] # formatter.indent[1]
                    /\ \A m \in (i + 1) .. (j - 1) : writer[m] = formatter.indent[1]]
    ELSE None

\* C25: with PrettyFormatter and length hints that are None or true,
\* current_indent is the number of containers opened and not yet closed, the
\* subtraction never goes below zero, current_indent is 0 when the top-level
\* value is complete, and the line of every element and key starts after a
\* newline with exactly as many copies of the indent string as containers
\* are open there.
C25_IndentTracksDepth ==
    (formatter.kind = "pretty" /\ TruthfulSoFar) =>
        /\ ser.state # "panic"
        /\ formatter.current_indent = OpenIn(Len(writer))
        /\ formatter.current_indent
             = Len(ser.stack)
               - (IF ser.stack # <<>> /\ Top(ser.stack).state = "Empty" THEN 1 ELSE 0)
        /\ formatter.current_indent >= 0
        /\ ser.state = "done" => formatter.current_indent = 0
        /\ \A i \in 1 .. Len(writer) :
              (writer[i] = 10 /\ AfterIndent(i) \notin {93, 125}) =>
                  IndentedBy(i, OpenIn(i))

\* an object in an array, written with the default indentation: the key is
\* on a line of its own after four spaces
C25_Witness ==
    /\ formatter.kind = "pretty"
    /\ TruthfulSoFar
    /\ ser.state = "done"
    /\ formatter.current_indent = 0
    /\ writer = <<91, 10, 32, 32, 123, 10, 32, 32, 32, 32, 34, 97, 34, 58, 32,
                  110, 117, 108, 108, 10, 32, 32, 125, 10, 93>>

----------------------------------------------------------------------------
(* Closers per container.                                                  *)

\* the end_array and end_object calls among the formatter calls cs
Closers(cs) ==
    Cardinality({k \in 1 .. Len(cs) : cs[k].fn \in {"end_array", "end_object"}})

\* this step is a serialize_seq or serialize_map that returned
Opens == Len(ser'.stack) > Len(ser.stack) /\ ser'.state # "panic"

\* this step is an end() that returned
Ends == ser.state = "open" /\ Len(ser'.stack) < Len(ser.stack) /\ ser'.state # "panic"

\* the closer of the container c was written when it was opened exactly
\* when its hint was Some(0); this step, the end() of c, has written
\* one closer in all for c, and the bytes from the opener of c on end with
\* that closer: directly behind the opener if end() wrote nothing, as the
\* last byte written if it did
ClosedOnce(c) ==
    /\ (IF c.hint = 0 THEN 1 ELSE 0) + Closers(calls') - Closers(calls) = 1
    /\ writer'[Len(writer')] = Closer(c.type)
    /\ Closers(calls') = Closers(calls) =>
          SubSeq(writer', c.start, Len(writer')) = <<Opener(c.type), Closer(c.type)>>
    /\ Closers(calls') # Closers(calls) => Len(writer') > Len(writer)

\* serialize_seq / serialize_map write the closer at once exactly for Some(0)
ClosedAtOpen ==
    Opens => Closers(calls') - Closers(calls)
               = (IF Top(ser'.stack).hint = 0 THEN 1 ELSE 0)

\* C26, as stated: whatever the length hint and the number of elements then
\* serialized, exactly one closer has been written for a container when its
\* end() returns, and nothing of the container follows that closer.
C26_AsStated ==
    [][ClosedAtOpen /\ (Ends => ClosedOnce(Top(ser.stack)))]_vars

\* C26: for a container whose hint is None, Some(n) with n >= 1, or Some(0)
\* with no element or entry serialized after it, whatever the number of
\* elements otherwise, exactly one closer has been written for it when its
\* end() returns, and nothing of the container follows that closer.
C26_BalancedUnlessEmptyHintBelied ==
    [][/\ ClosedAtOpen
       /\ (Ends /\ (Top(ser.stack).hint = 0 => Top(ser.stack).n = 0)) =>
             ClosedOnce(Top(ser.stack))]_vars

\* a sequence opened with Some(2) has ended after one element, and one
\* opened with Some(0) after none
C26_Witness ==
    /\ formatter.kind = "compact"
    /\ ser.state = "done"
    /\ ser.ended # NoCompound
    /\ ser.ended.hint = 2
    /\ ser.ended.n = 1
    /\ writer = <<91, 91, 93, 93>>
    /\ Closers(calls) = 2

----------------------------------------------------------------------------
(* parse_str, parse_str_raw and decode_hex_escape on the two sources.      *)

\* the two results are both Ok with the same bytes, or both Err with the
\* same code
SameParse(a, b) ==
    /\ (a.tag = "Err") = (b.tag = "Err")
    /\ a.tag # "Err" => a.bytes = b.bytes
    /\ a.tag = "Err" => a.err.code = b.err.code

\* the two results are both Ok with the same u16, or both Err with the same
\* code
SameHex(a, b) ==
    /\ a.ok = b.ok
    /\ a.ok => a.v = b.v
    /\ ~a.ok => a.err.code = b.err.code

\* C27: the reader source and the slice source give the same for parse_str
\* and parse_str_raw from the same place of the same input, and the same
\* for decode_hex_escape from every place of it: the same bytes (the same
\* 16-bit value) on success and an error of the same kind on failure.
C27_ParseSameOnSources ==
    /\ (last.op = "parse_str" /\ input = OkBytes(input)) =>
          SameParse(IoRead_parse_str(IoTwin(last.start), last.scratch0),
                    SliceRead_parse_str(SliceTwin(last.start), last.scratch0))
    /\ (last.op = "parse_str_raw" /\ input = OkBytes(input)) =>
          SameParse(IoRead_parse_str_raw(IoTwin(last.start), last.scratch0),
                    SliceRead_parse_str_raw(SliceTwin(last.start), last.scratch0))
    /\ input = OkBytes(input) =>
          \A n \in 0 .. Len(input) :
              SameHex(IoRead_decode_hex_escape(IoTwin(n)),
                      SliceRead_decode_hex_escape(SliceTwin(n)))

----------------------------------------------------------------------------
(* A slice or text source under every operation of the trait.              *)

\* the quote, the backslash, u, the hex digit A, the control byte 0x1F, the
\* newline, \uD83D and \ude00
SliceChunks ==
    {<<34>>, <<92>>, <<117>>, <<65>>, <<31>>, <<10>>,
     HexEscape(55357, TRUE), HexEscape(56832, FALSE)}

SliceInit ==
    \E kind \in {"slice", "str"} :
        \E cs \in SeqsUpTo(SliceChunks, MaxChunks) :
            Construct(kind, Concat(cs), cs)

decode_hex_escape_on(h) ==
    /\ rd' = h.r
    /\ last' = [Call("decode_hex_escape", IF h.ok THEN h.v ELSE ErrVal)
                    EXCEPT !.res = [NoRes EXCEPT !.tag = IF h.ok THEN "Ok" ELSE "Err",
                                                 !.err = h.err],
                           !.start = Read_byte_offset(rd), !.at = ItemPos(rd)]
    /\ consumed' = ConsumedUpTo(h.r)
    /\ UNCHANGED <<input, failed, latched, gen, ser_vars, val_vars>>

decode_hex_escape == decode_hex_escape_on(Read_decode_hex_escape(rd))

SliceNext ==
    \/ next
    \/ peek
    \/ discard
    \/ parse_str
    \/ parse_str_raw
    \/ ignore_str
    \/ decode_hex_escape
    \/ set_failed

SliceSpec == SliceInit /\ [][SliceNext]_vars

\* the SliceRead of the source
TheSlice == IF rd.kind = "str" THEN rd.delegate ELSE rd

\* C28: after any sequence of next, peek, discard, parse_str, parse_str_raw,
\* ignore_str, decode_hex_escape and set_failed the index of a SliceRead is
\* at most the length of its slice, and so are the indices position() and
\* peek_position() count up to.
C28_IndexWithinSlice ==
    /\ TheSlice.index >= 0
    /\ TheSlice.index <= Len(TheSlice.slice)
    /\ Min(Len(TheSlice.slice), TheSlice.index + 1) <= Len(TheSlice.slice)
    /\ Read_position(rd) = PositionFold(input, TheSlice.index)
    /\ Read_peek_position(rd)
         = PositionFold(TheSlice.slice, Min(Len(TheSlice.slice), TheSlice.index + 1))

\* a \u escape cut short by the end of the slice has put the cursor at the
\* end, and set_failed has then cut the slice there
C28_Witness ==
    /\ input = <<34, 92, 117>>
    /\ last.op = "set_failed"
    /\ TheSlice.index = 3
    /\ Len(TheSlice.slice) = 3
    /\ consumed = input

----------------------------------------------------------------------------
(* One \u escape of any value, or one surrogate pair, in a string.         *)

\* the hex digits an escape is written with: the least, the greatest, those
\* around the sign bit of a nibble, and those that begin surrogates
Nibbles == {0, 7, 8, 9, 10, 12, 13, 15}

\* the u16 values written with these digits
HexValues ==
    {4096 * a + 256 * b + 16 * c + d : a \in Nibbles, b \in Nibbles,
                                       c \in Nibbles, d \in Nibbles}

HexInit ==
    \E kind \in Kinds :
        \E upper \in BOOLEAN :
            \/ \E n \in HexValues :
                  Construct(kind, <<34>> \o HexEscape(n, upper) \o <<34>>,
                            [n |-> n, l |-> None])
            \/ \E h \in Highs, l \in Lows :
                  Construct(kind,
                            <<34>> \o HexEscape(h, upper) \o HexEscape(l, ~upper) \o <<34>>,
                            [n |-> h, l |-> l])

HexNext == StrNext \/ decode_hex_escape

HexSpec == HexInit /\ [][HexNext]_vars

\* the value of the first k of the four hex digits of n
HexPrefix(n, k) == n \div Pow2(4 * (4 - k))

\* the k-th of the four hex digits of n
HexDigitOf(n, k) == HexPrefix(n, k) % 16

\* the accumulation of the four digits of n neither shifts a bit out of the
\* u16 nor carries out of it
AccumulatesInU16(n) ==
    \A k \in 1 .. 4 :
        /\ Shl(HexPrefix(n, k - 1), 4, 16) = 16 * HexPrefix(n, k - 1)
        /\ HexPush(HexPrefix(n, k - 1), HexDigitOf(n, k)) = HexPrefix(n, k)
        /\ HexPush(HexPrefix(n, k - 1), HexDigitOf(n, k)) < Pow2(16)

\* the arithmetic of the surrogate pair in a u32, without wrapping
CombinedExactly(n1, n2) == 1024 * (n1 - 55296) + (n2 - 56320) + 65536

\* C29: decode_hex_escape accumulates the four hex digits, upper or lower
\* case, in a u16 without overflow and returns their value; a high and a
\* low surrogate combine to a value in 0x10000..=0x10FFFF that is a char, so
\* no InvalidUnicodeCodePoint is returned; and the unwrap on char::from_u32
\* for the values outside the surrogate range never panics.
C29_EscapeArithmeticSafe ==
    /\ AccumulatesInU16(gen.n)
    /\ gen.l # None =>
          /\ AccumulatesInU16(gen.l)
          /\ CombineSurrogates(gen.n, gen.l) = CombinedExactly(gen.n, gen.l)
          /\ CombineSurrogates(gen.n, gen.l) >= 65536
          /\ CombineSurrogates(gen.n, gen.l) <= 1114111
          /\ char_from_u32(CombineSurrogates(gen.n, gen.l))
    /\ (last.op = "decode_hex_escape" /\ last.start = 3) =>
          /\ last.res.tag = "Ok"
          /\ last.val = gen.n
    /\ (last.op = "decode_hex_escape" /\ last.start = 9 /\ gen.l # None) =>
          /\ last.res.tag = "Ok"
          /\ last.val = gen.l
    /\ last.res.err.code \notin {"InvalidUnicodeCodePoint", Panicked.code}
    /\ (last.op \in {"parse_str", "parse_str_raw"} /\ last.start = 1
        /\ gen.l = None /\ (gen.n < 55296 \/ gen.n > 57343)) =>
          /\ last.res.tag # "Err"
          /\ last.res.bytes = last.scratch0 \o encode_utf8(gen.n)

\* the escape of ffff in lower case has been decoded to 65535, the greatest
\* value the accumulator holds
C29_Witness ==
    /\ input = <<34, 92, 117, 102, 102, 102, 102, 34>>
    /\ last.op = "decode_hex_escape"
    /\ last.start = 3
    /\ last.val = 65535
    /\ last.res.tag = "Ok"

----------------------------------------------------------------------------
(* read.rs: the loops of parse_str_bytes and ignore_str, one turn at a     *)
(* time.  A turn ends in `continue` or the end of the loop body (tag       *)
(* Continue, with the scratch and, for a slice, the start of the run not   *)
(* yet copied) or in a return (the tags of Result<Reference>).             *)

Continue(r, scratch, start) ==
    [r |-> r, tag |-> "Continue", bytes |-> <<>>, scratch |-> scratch,
     err |-> NoError, start |-> start]

Return(out) ==
    [r |-> out.r, tag |-> out.tag, bytes |-> out.bytes, scratch |-> out.scratch,
     err |-> out.err, start |-> 0]

\* tri!(parse_escape(..)) or tri!(ignore_escape(..)) of a reader
IoRead_turn_esc(e) ==
    IF ~e.ok THEN Return(StrErr(e.r, e.scratch, e.err)) ELSE Continue(e.r, e.scratch, 0)

IoRead_parse_str_turn_on(c, scratch, validate, result) ==
    IF ~c.ok THEN Return(StrErr(c.r, scratch, c.err))
    ELSE IF ~ESCAPE(c.v) THEN Continue(c.r, Append(scratch, c.v), 0)
    ELSE IF c.v = 34 THEN Return(Result(c.r, result, "Copied", scratch, scratch))
    ELSE IF c.v = 92 THEN IoRead_turn_esc(parse_escape(c.r, validate, scratch))
    ELSE IF validate
    THEN Return(StrErr(c.r, scratch, error(c.r, "ControlCharacterWhileParsingString")))
    ELSE Continue(c.r, Append(scratch, c.v), 0)

\* one turn of the loop of IoRead::parse_str_bytes
IoRead_parse_str_turn(self, scratch, validate, result) ==
    IoRead_parse_str_turn_on(next_or_eof(self), scratch, validate, result)

IoRead_ignore_str_turn_on(c) ==
    IF ~c.ok THEN Return(StrErr(c.r, <<>>, c.err))
    ELSE IF ~ESCAPE(c.v) THEN Continue(c.r, <<>>, 0)
    ELSE IF c.v = 34 THEN Return(StrOk(c.r, "Unit", <<>>, <<>>))
    ELSE IF c.v = 92 THEN IoRead_turn_esc(ignore_escape(c.r))
    ELSE Return(StrErr(c.r, <<>>, error(c.r, "ControlCharacterWhileParsingString")))

\* one turn of the loop of IoRead::ignore_str
IoRead_ignore_str_turn(self) == IoRead_ignore_str_turn_on(next_or_eof(self))

\* tri!(parse_escape(..)) or tri!(ignore_escape(..)) of a slice, then
\* start = self.index
SliceRead_turn_esc(e) ==
    IF ~e.ok THEN Return(StrErr(e.r, e.scratch, e.err))
    ELSE Continue(e.r, e.scratch, e.r.index)

\* a variant whose last arm goes round again without self.index += 1
SliceRead_parse_str_turn_stalled(s, scratch, start, validate, result) ==
    IF s.index = Len(s.slice)
    THEN Return(StrErr(s, scratch, error(s, "EofWhileParsingString")))
    ELSE IF s.slice[s.index + 1] = 34 THEN
        IF scratch = <<>>
        THEN Return(Result(Advance(s), result, "Borrowed", Slice(s, start), scratch))
        ELSE Return(Result(Advance(s), result, "Copied",
                           scratch \o Slice(s, start), scratch \o Slice(s, start)))
    ELSE IF s.slice[s.index + 1] = 92
    THEN SliceRead_turn_esc(parse_escape(Advance(s), validate, scratch \o Slice(s, start)))
    ELSE IF validate
    THEN Return(StrErr(Advance(s), scratch,
                       error(Advance(s), "ControlCharacterWhileParsingString")))
    ELSE Continue(s, scratch, start)

\* the body of the loop of SliceRead::parse_str_bytes once the scan has
\* stopped at s.index
SliceRead_parse_str_turn_on(s, scratch, start, validate, result) ==
    IF s.index = Len(s.slice)
    THEN Return(StrErr(s, scratch, error(s, "EofWhileParsingString")))
    ELSE IF s.slice[s.index + 1] = 34 THEN
        IF scratch = <<>>
        THEN Return(Result(Advance(s), result, "Borrowed", Slice(s, start), scratch))
        ELSE Return(Result(Advance(s), result, "Copied",
                           scratch \o Slice(s, start), scratch \o Slice(s, start)))
    ELSE IF s.slice[s.index + 1] = 92
    THEN SliceRead_turn_esc(parse_escape(Advance(s), validate, scratch \o Slice(s, start)))
    ELSE IF validate
    THEN Return(StrErr(Advance(s), scratch,
                       error(Advance(s), "ControlCharacterWhileParsingString")))
    ELSE Continue(Advance(s), scratch, start)

\* one turn of the loop of SliceRead::parse_str_bytes
SliceRead_parse_str_turn(self, scratch, start, validate, result) ==
    SliceRead_parse_str_turn_on(SliceRead_skip(self), scratch, start, validate, result)

SliceRead_ignore_str_turn_on(s) ==
    IF s.index = Len(s.slice)
    THEN Return(StrErr(s, <<>>, error(s, "EofWhileParsingString")))
    ELSE IF s.slice[s.index + 1] = 34 THEN Return(StrOk(Advance(s), "Unit", <<>>, <<>>))
    ELSE IF s.slice[s.index + 1] = 92 THEN SliceRead_turn_esc(ignore_escape(Advance(s)))
    ELSE Return(StrErr(s, <<>>, error(s, "ControlCharacterWhileParsingString")))

\* one turn of the loop of SliceRead::ignore_str
SliceRead_ignore_str_turn(self) == SliceRead_ignore_str_turn_on(SliceRead_skip(self))

\* the call in progress: op with its scratch buffer as it is now and as it
\* was passed (scratch0), the start of the run a slice has not yet copied,
\* where the cursor was at the call (from, at), the turns its loop has taken
\* and gone round again, and what the call returns
\* when it is run in one go (expect) and where that leaves the cursor (ends)
Frame(op, scratch, start, origin, at, expect) ==
    [kind |-> "frame", op |-> op, scratch |-> scratch, scratch0 |-> scratch,
     start |-> start, from |-> origin, at |-> at, turns |-> 0,
     expect |-> expect, ends |-> at]

Outcome(out) ==
    [tag |-> out.tag, bytes |-> out.bytes, scratch |-> out.scratch, err |-> out.err]

NoFrame == Frame("none", <<>>, 0, 0, 0, NoRes)

\* validate and the closure the operation passes to parse_str_bytes
Validates(op) == op = "parse_str"

Closure(op, kind) ==
    IF op = "parse_str_raw" THEN "bytes" ELSE IF kind = "str" THEN "unchecked" ELSE "as_str"

\* one turn of the loop of the call f on the source r
Read_turn(r, f) ==
    CASE r.kind = "io" /\ f.op = "ignore_str" -> IoRead_ignore_str_turn(r)
      [] r.kind = "io" /\ f.op # "ignore_str" ->
             IoRead_parse_str_turn(r, f.scratch, Validates(f.op), Closure(f.op, r.kind))
      [] r.kind = "slice" /\ f.op = "ignore_str" -> SliceRead_ignore_str_turn(r)
      [] r.kind = "slice" /\ f.op # "ignore_str" ->
             SliceRead_parse_str_turn(r, f.scratch, f.start, Validates(f.op),
                                      Closure(f.op, r.kind))
      [] r.kind = "str" /\ f.op = "ignore_str" ->
             Delegated(r, SliceRead_ignore_str_turn(r.delegate))
      [] r.kind = "str" /\ f.op # "ignore_str" ->
             Delegated(r, SliceRead_parse_str_turn(r.delegate, f.scratch, f.start,
                                                   Validates(f.op), Closure(f.op, r.kind)))

\* the operation run in one go
Read_run(r, op, scratch) ==
    CASE op = "parse_str" -> Read_parse_str(r, scratch)
      [] op = "parse_str_raw" -> Read_parse_str_raw(r, scratch)
      [] op = "ignore_str" -> Read_ignore_str(r)

Running == obj.op # "none"

\* parse_str, parse_str_raw or ignore_str is called after the opening quote
call ==
    /\ ~Running
    /\ AfterQuote
    /\ \E op \in {"parse_str", "parse_str_raw", "ignore_str"} :
         \E scratch \in (IF op = "ignore_str" THEN {<<>>} ELSE Scratches) :
            obj' = [Frame(op, scratch, ItemPos(rd), Read_byte_offset(rd), ItemPos(rd), NoRes)
                       EXCEPT !.expect = Outcome(Read_run(rd, op, scratch)),
                              !.ends = ItemPos(Read_run(rd, op, scratch).r)]
    /\ last' = Call("call", None)
    /\ ret' = [op |-> "none", res |-> NoRes]
    /\ UNCHANGED <<rd, input, failed, consumed, latched, gen, ser_vars>>

\* the loop of the call in progress takes one turn
iterate_on(t) ==
    /\ rd' = t.r
    /\ consumed' = ConsumedUpTo(t.r)
    /\ IF t.tag = "Continue"
       THEN /\ obj' = [obj EXCEPT !.scratch = t.scratch, !.start = t.start,
                                   !.turns = @ + 1]
            /\ UNCHANGED <<ret, last>>
       ELSE /\ obj' = NoFrame
            /\ ret' = [op |-> "returned", res |-> Outcome(t)]
            /\ last' = [op |-> obj.op, val |-> None, res |-> Outcome(t),
                        scratch0 |-> obj.scratch0, start |-> obj.from, at |-> obj.at]
    /\ UNCHANGED <<input, failed, latched, gen, ser_vars>>

\* no call takes more turns than the input has items
iterate ==
    /\ Running
    /\ obj.turns <= Len(input)
    /\ iterate_on(Read_turn(rd, obj))

\* the caller consumes a byte between two calls
advance == ~Running /\ next

\* a, the quote, the backslash, the control byte 0x1F, n, A, the start of an
\* escape and a high and a low surrogate
TermChunks ==
    {<<97>>, <<34>>, <<92>>, <<31>>, <<110>>, <<92, 117>>,
     HexEscape(55357, TRUE), HexEscape(56832, FALSE)}

TermInit ==
    \E kind \in Kinds :
        \E cs \in SeqsUpTo(ChunksOf(kind, TermChunks), MaxChunks) :
            /\ ReadInit(kind, <<34>> \o Concat(cs), cs)
            /\ SerIdle
            /\ obj = NoFrame
            /\ ret = [op |-> "none", res |-> NoRes]

TermNext == advance \/ call \/ iterate

\* a call in progress goes on running: weak fairness of iterate, which is
\* enabled exactly while a call is in progress
TermSpec ==
    /\ TermInit
    /\ [][TermNext]_vars
    /\ ([]<>(~Running) \/ []<><<iterate>>_vars)


\* the chunks hold no quote
NoQuote(cs) == \A i \in 1 .. Len(cs) : cs[i] # <<34>>

\* the chunks are letters and surrogate pairs: a string body that is good as
\* far as it goes
Unclosed(cs) ==
    \A i \in 1 .. Len(cs) :
        \/ cs[i] \in {<<97>>, <<110>>}
        \/ cs[i] = HexEscape(55357, TRUE) /\ i < Len(cs) /\ cs[i + 1] = HexEscape(56832, FALSE)
        \/ cs[i] = HexEscape(56832, FALSE) /\ i > 1 /\ cs[i - 1] = HexEscape(55357, TRUE)

\* parse_escape and ignore_escape called where the cursor is leave it where
\* it is or further on, and further on when they return Ok
EscapeMovesOn(e) ==
    /\ ItemPos(e.r) >= ItemPos(rd)
    /\ e.ok => ItemPos(e.r) > ItemPos(rd)

C30_Inv ==
    /\ Running => obj.turns <= ItemPos(rd) - obj.at
    /\ Running => obj.turns < Len(input)
    /\ EscapeMovesOn(parse_escape(rd, TRUE, <<>>))
    /\ EscapeMovesOn(parse_escape(rd, FALSE, <<>>))
    /\ EscapeMovesOn(ignore_escape(rd))
    /\ (ret.op = "returned" /\ last.op \in {"parse_str", "parse_str_raw", "ignore_str"}) =>
          /\ last.res.tag # "Err" => consumed[Len(consumed)] = 34
          /\ NoQuote(gen) => last.res.tag = "Err"
          /\ last.res.err.code = "EofWhileParsingString" =>
                /\ Error_classify(last.res.err) = "Eof"
                /\ ItemPos(rd) = Len(input)
          /\ Unclosed(gen) => last.res.err.code = "EofWhileParsingString"

C30_Act ==
    /\ ItemPos(rd') >= ItemPos(rd)
    /\ Read_byte_offset(rd') >= Read_byte_offset(rd)
    /\ (Running /\ Running') => ItemPos(rd') > ItemPos(rd)
    /\ (Running /\ ~Running') =>
          /\ ret'.res = obj.expect
          /\ ItemPos(rd') = obj.ends

\* C30: parse_str, parse_str_raw and ignore_str terminate on every input
\* and source: a call in progress returns; every turn of its loop, and every
\* parse_escape and ignore_escape, moves the cursor on by at least one byte
\* or returns, so that a call takes no more turns than it has consumed
\* bytes; the cursor never moves backwards; and a string body without
\* a closing quote that is good as far as it goes ends in
\* EofWhileParsingString, of category Eof, at the end of the input.
C30_StringLoopsTerminate ==
    /\ [](C30_Inv)
    /\ [][C30_Act]_vars
    /\ (Running ~> ~Running)

\* parse_str_raw has run off the end of "a followed by a high and a low
\* surrogate in three turns on a slice
C30_Witness ==
    /\ rd.kind = "slice"
    /\ gen = <<<<97>>, HexEscape(55357, TRUE), HexEscape(56832, FALSE)>>
    /\ ret.op = "returned"
    /\ last.op = "parse_str_raw"
    /\ last.res.err.code = "EofWhileParsingString"
    /\ rd.index = Len(input)

====
